---- MODULE Spec2Model ----
(***************************************************************************)
(* Relay server of secure-messenger (server crate): the credential and     *)
(* message tables of storage.rs, the connection registry of websocket.rs   *)
(* and the per-socket task of handlers/websocket.rs.  A handler is split   *)
(* at its .await points on the database; everything between two awaits is  *)
(* one atomic step.                                                        *)
(***************************************************************************)
EXTENDS Integers, Sequences, FiniteSets, TLC

None == "none"

\* ------------------------------------------------------------------------
\* Bounds of the model
\* ------------------------------------------------------------------------
\* Frames and requests accepted over a whole run of Spec, by kind:
\* authenticate frames, message frames, acknowledgements (ack frames and
\* POST /messages/ack)
MaxAuth == 2
MaxMsg == 1
MaxAck == 1
\* the same for SpecOrder: authenticate frames and message frames
MaxAuthOrder == 2
MaxMsgOrder == 2
\* the same for SpecLife: authenticate frames, close frames and
\* DELETE /users/me/devices/{id} requests
MaxAuthLife == 3
MaxClose == 2
MaxRemove == 1
\* seconds the clock may advance in SpecOrder
MaxTicks == 1
\* SpecAccount: authenticate frames, and HTTP requests and admin commands
MaxAuthAccount == 1
MaxHttp == 2
\* SpecRegistry: calls of register and of unregister
MaxRegister == 3
MaxRegisterRace == 2
MaxUnregisterRace == 1
MaxUnregister == 2
\* SpecExpiry: authenticate frames, message frames, seconds of the clock
MaxAuthExpiry == 2
MaxMsgExpiry == 1
MaxTicksExpiry == 7
\* SpecReaper: authenticate frames, message frames, uploads, refreshes, runs
\* of the cleanup task, seconds of the clock
MaxAuthReaper == 1
MaxMsgReaper == 1
MaxFileReaper == 1
MaxHttpReaper == 1
MaxReap == 2
MaxTicksReaper == 4
\* SpecSignal: authenticate frames, message frames, typing and call_signal
\* frames
MaxAuthSignal == 2
MaxMsgSignal == 1
MaxSignal == 2
MaxAuthRevoke == 2
MaxMsgRevoke == 1
MaxSignalRevoke == 1
MaxHttpRevoke == 1
MaxRemoveRevoke == 1
MaxHttpRefresh == 3
MaxHttpDeactivate == 3
\* SpecAdmin: authenticate frames, admin requests
MaxAuthAdmin == 1
MaxHttpAdmin == 3
\* SpecFiles: file requests, seconds of the clock
MaxFile == 3
MaxTicksFiles == 4
\* seconds in a day, scaled down; the clock counts seconds
SecsPerDay == 2
\* storage.max_message_age_hours, scaled down to clock seconds
MaxMessageAge == 2
\* lifetime of a session (24 * 30 hours), scaled down to clock seconds
SessionTtl == 6
\* storage.max_file_age_hours, scaled down to clock seconds
MaxFileAge == 2

\* ------------------------------------------------------------------------
\* Finite universes of the inputs
\* ------------------------------------------------------------------------
UserIds == {"u1", "u2"}
DeviceIds == {"d1", "d2", "d3"}
Sockets == {"s1", "s2"}
Tokens == {"t1", "t2", "t3", "tOld", "tInv", "tBad"}
MessageIds == {"m1", "m2"}
MessageTypes == {"Text"}
\* the instant of Init: one day after the epoch of the clock
T0 == SecsPerDay
FrameKinds == {"auth", "msg", "ack", "close", "remove", "http", "reg", "unreg",
               "reap", "file", "signal"}
\* what generate_session_token and generate_device_id may return
NewTokens == {"n1", "n2"}
NewDevices == {"e1", "e2"}
\* users a login may name: the registered ones and one that is not
LoginUserIds == UserIds \cup {"u9"}

VARIABLES
    now,            \* wall clock, in seconds
    users,          \* table users: user_id -> [is_active]
    devices,        \* table devices: device_id -> [user_id]
    sessions,       \* table sessions: token_hash -> row
    pending,        \* table pending_messages, in rowid order
    connections,    \* WebSocketManager.connections: user_id -> Seq(Connection)
    device_to_user, \* WebSocketManager.device_to_user
    open,           \* socket -> the reader loop has not left its while loop
    user_id,        \* socket -> handle_socket's user_id  (None = Unauth)
    device_id,      \* socket -> handle_socket's device_id
    pc,             \* socket -> position of the socket task
    local,          \* socket -> locals of the frame being handled
    chan,           \* socket -> every frame enqueued on its tx, in order
    frames,         \* kind -> number of client frames and requests so far
    limit,          \* kind -> number of frames and requests of a run; ticks
    response,       \* the last HTTP request and the response it got
    files,          \* table files: file_id -> row
    disk,           \* the directory storage.files_path: name -> bytes
    reaped,         \* what the last cleanup_expired returned
    identity,       \* client -> CryptoEngine.identity_secret
    identity_public, \* client -> CryptoEngine.identity_public
    peer_sessions,  \* client -> CryptoEngine.sessions: peer_id -> SessionKeys
    wire,           \* the last frame a client encrypted, and what went in
    outcome,        \* the last call of a crypto function and its result
    calls           \* thread -> the call it is in, between two steps of it

vars == <<now, users, devices, sessions, pending, connections, device_to_user,
          open, user_id, device_id, pc, local, chan, frames, limit, response,
          files, disk, reaped, identity, identity_public, peer_sessions, wire, outcome,
          calls>>

cryptoVars == <<identity, identity_public, peer_sessions, wire, outcome>>

fileVars == <<files, disk, reaped>>

dbVars == <<users, devices, sessions, pending>>
regVars == <<connections, device_to_user>>
sockVars == <<open, user_id, device_id, pc, local>>

\* ------------------------------------------------------------------------
\* crypto.rs
\* ------------------------------------------------------------------------
\* hex(SHA-256(key)): collision free, and never equal to the key itself
hash_access_key(key) == <<"sha256", key>>

\* ------------------------------------------------------------------------
\* Timestamps as SQLite compares them.
\* created_at and datetime('now') are "YYYY-MM-DD HH:MM:SS"; expires_at is
\* written with to_rfc3339(), "YYYY-MM-DDTHH:MM:SS.f+00:00".  The columns
\* are TEXT, so  expires_at > datetime('now')  is a string comparison: the
\* dates decide first, and on equal dates 'T' (0x54) is greater than ' '.
\* ------------------------------------------------------------------------
DayOf(t) == t \div SecsPerDay

SqlDatetime(t) == [fmt |-> "sqlite", t |-> t]

ToRfc3339(t) == [fmt |-> "rfc3339", t |-> t]

TextGt(a, b) ==
    IF DayOf(a.t) # DayOf(b.t) THEN DayOf(a.t) > DayOf(b.t)
    ELSE IF a.fmt = b.fmt THEN a.t > b.t
    ELSE a.fmt = "rfc3339"

\* DateTime::parse_from_rfc3339(s), falling back to Utc::now()
parse_datetime_to_timestamp(s) == IF s.fmt = "rfc3339" THEN s.t ELSE now

\* ------------------------------------------------------------------------
\* models.rs
\* ------------------------------------------------------------------------
MessageTypeToString(mt) ==
    CASE mt = "Text" -> "text"
      [] mt = "Voice" -> "voice"
      [] OTHER -> "other"

MessageTypeFromString(s) ==
    CASE s = "text" -> "Text"
      [] s = "voice" -> "Voice"
      [] OTHER -> "Text"

Envelopes ==
    [message_id : MessageIds,
     sender_id : UserIds,
     recipient_id : UserIds,
     recipient_device_id : {None, "d1"},
     encrypted_content : {"c"},
     message_type : MessageTypes,
     timestamp : {0}]

\* the message_ids of an ack frame or of POST /messages/ack
AckLists == {<<"m1">>, <<"m2">>, <<"m1", "m2">>}

AuthenticatedFrame(u, d) == [type |-> "authenticated", user_id |-> u, device_id |-> d]
ErrorFrame(code) == [type |-> "error", code |-> code]
MessageFrame(env) == [type |-> "message", envelope |-> env]
AcknowledgedFrame(ids) == [type |-> "ack", message_ids |-> ids]
UserOfflineFrame(u) == [type |-> "user_offline", user_id |-> u]
TypingFrame(u, is_typing) == [type |-> "typing", user_id |-> u, is_typing |-> is_typing]
CallSignalFrame(signal) == [type |-> "call_signal", signal |-> signal]
PresenceFrame(u, status) == [type |-> "presence", user_id |-> u, status |-> status]
PresenceStatuses == {"Online", "Away", "Offline"}

CallSignals ==
    [call_id : {"c1"},
     sender_id : UserIds,
     recipient_id : UserIds,
     signal_type : {"Offer"},
     payload : {"sdp"}]

EmptyMap == [x \in {} |-> None]

Some(v) == [some |-> TRUE, val |-> v]
Nothing == [some |-> FALSE]

\* ------------------------------------------------------------------------
\* storage.rs: sessions and devices
\* ------------------------------------------------------------------------
validate_session(token) ==
    LET h == hash_access_key(token) IN
    IF /\ h \in DOMAIN sessions
       /\ sessions[h].is_valid
       /\ TextGt(sessions[h].expires_at, SqlDatetime(now))
    THEN Some(sessions[h])
    ELSE Nothing

\* UPDATE sessions SET is_valid = 0 WHERE device_id = ?; DELETE FROM devices;
\* the foreign key of sessions.device_id cascades the delete
delete_device_sessions(d) ==
    [h \in {k \in DOMAIN sessions : sessions[k].device_id # d} |-> sessions[h]]

delete_device_devices(d) ==
    [x \in DOMAIN devices \ {d} |-> devices[x]]

\* ------------------------------------------------------------------------
\* storage.rs: pending_messages
\* ------------------------------------------------------------------------
HasMessageId(rows, mid) == \E i \in 1..Len(rows) : rows[i].message_id = mid

PendingRow(envelope) ==
    [message_id |-> envelope.message_id,
     sender_id |-> envelope.sender_id,
     recipient_id |-> envelope.recipient_id,
     recipient_device_id |-> envelope.recipient_device_id,
     encrypted_content |-> envelope.encrypted_content,
     message_type |-> MessageTypeToString(envelope.message_type),
     created_at |-> SqlDatetime(now),
     expires_at |-> ToRfc3339(now + MaxMessageAge)]

\* a table without the UNIQUE(message_id) constraint
StoreSucceeds_NoUnique(envelope) == envelope.sender_id \in DOMAIN users

\* the INSERT fails on the UNIQUE(message_id) constraint and on the foreign
\* key sender_id -> users; the table is then unchanged
StoreSucceeds(envelope) ==
    /\ ~HasMessageId(pending, envelope.message_id)
    /\ envelope.sender_id \in DOMAIN users

store_pending_message(envelope) ==
    IF StoreSucceeds(envelope) THEN Append(pending, PendingRow(envelope))
    ELSE pending

\* ORDER BY created_at ASC: rows with equal created_at keep rowid order
RECURSIVE InsertByCreatedAt(_, _)
InsertByCreatedAt(sorted, row) ==
    IF sorted = <<>> THEN <<row>>
    ELSE IF TextGt(Head(sorted).created_at, row.created_at)
         THEN <<row>> \o sorted
         ELSE <<Head(sorted)>> \o InsertByCreatedAt(Tail(sorted), row)

\* ORDER BY created_at DESC
RECURSIVE OrderByCreatedAt_Desc(_)
OrderByCreatedAt_Desc(rows) ==
    IF rows = <<>> THEN <<>>
    ELSE LET latest == CHOOSE i \in 1..Len(rows) :
                           \A j \in 1..Len(rows) :
                               \/ TextGt(rows[i].created_at, rows[j].created_at)
                               \/ (rows[i].created_at = rows[j].created_at /\ i <= j)
         IN <<rows[latest]>> \o
            OrderByCreatedAt_Desc(SubSeq(rows, 1, latest - 1) \o
                                  SubSeq(rows, latest + 1, Len(rows)))

RECURSIVE OrderByCreatedAt(_)
OrderByCreatedAt(rows) ==
    IF rows = <<>> THEN <<>>
    ELSE InsertByCreatedAt(OrderByCreatedAt(SubSeq(rows, 1, Len(rows) - 1)),
                           rows[Len(rows)])

PendingMatches(row, uid, did) ==
    /\ row.recipient_id = uid
    /\ (row.recipient_device_id = None \/ row.recipient_device_id = did)
    /\ TextGt(row.expires_at, SqlDatetime(now))

get_pending_messages(uid, did) ==
    LET Keep(row) == PendingMatches(row, uid, did) IN
    OrderByCreatedAt(SelectSeq(pending, Keep))

delete_pending_message_Keep(rows, mid) == rows

\* DELETE FROM pending_messages WHERE message_id = ?
delete_pending_message(rows, mid) ==
    LET Keep(row) == row.message_id # mid IN SelectSeq(rows, Keep)

RECURSIVE delete_pending_messages(_, _)
delete_pending_messages(rows, ids) ==
    IF ids = <<>> THEN rows
    ELSE delete_pending_messages(delete_pending_message(rows, Head(ids)), Tail(ids))

\* ------------------------------------------------------------------------
\* websocket.rs: WebSocketManager.  A Connection's sender is the tx of a
\* socket, named by the socket.
\* ------------------------------------------------------------------------
Connection(uid, did, s) == [user_id |-> uid, device_id |-> did, sender |-> s]

register_connections(uid, did, s) ==
    IF uid \in DOMAIN connections
    THEN [connections EXCEPT ![uid] = Append(@, Connection(uid, did, s))]
    ELSE [u \in DOMAIN connections \cup {uid} |->
            IF u = uid THEN <<Connection(uid, did, s)>> ELSE connections[u]]

register_device_to_user(uid, did) ==
    [d \in DOMAIN device_to_user \cup {did} |->
        IF d = did THEN uid ELSE device_to_user[d]]

\* an unregister that leaves the emptied list of the user in the map
unregister_connections_KeepEmpty(did) ==
    IF did \notin DOMAIN device_to_user THEN connections
    ELSE LET uid == device_to_user[did]
             Keep(c) == c.device_id # did
         IN IF uid \notin DOMAIN connections THEN connections
            ELSE [connections EXCEPT ![uid] = SelectSeq(@, Keep)]

\* connections.retain(|c| c.device_id != device_id), then remove the user's
\* entry when it became empty
unregister_connections(did) ==
    IF did \notin DOMAIN device_to_user THEN connections
    ELSE LET uid == device_to_user[did]
             Keep(c) == c.device_id # did
         IN IF uid \notin DOMAIN connections THEN connections
            ELSE LET kept == SelectSeq(connections[uid], Keep) IN
                 IF kept = <<>>
                 THEN [u \in DOMAIN connections \ {uid} |-> connections[u]]
                 ELSE [connections EXCEPT ![uid] = kept]

unregister_device_to_user(did) ==
    [d \in DOMAIN device_to_user \ {did} |-> device_to_user[d]]

is_user_online(conns, uid) == uid \in DOMAIN conns /\ conns[uid] # <<>>

get_online_users(conns) == DOMAIN conns

\* sender.send(msg): fails once the receiver of the channel is dropped
Send(ch, s, msg) == IF open[s] THEN [ch EXCEPT ![s] = Append(@, msg)] ELSE ch

RECURSIVE SendEach(_, _, _)
SendEach(ch, conns, msg) ==
    IF conns = <<>> THEN ch
    ELSE SendEach(Send(ch, Head(conns).sender, msg), Tail(conns), msg)

send_to_user(ch, conns, uid, msg) ==
    IF uid \in DOMAIN conns THEN SendEach(ch, conns[uid], msg) ELSE ch

\* the first connection of the owner's list with this device id
send_to_device(ch, conns, d2u, did, msg) ==
    IF did \notin DOMAIN d2u THEN ch
    ELSE IF d2u[did] \notin DOMAIN conns THEN ch
    ELSE LET list == conns[d2u[did]]
             hits == {i \in 1..Len(list) : list[i].device_id = did}
         IN IF hits = {} THEN ch
            ELSE Send(ch, list[CHOOSE i \in hits : \A j \in hits : i <= j].sender, msg)

send_to_other_devices(ch, conns, uid, exclude_device_id, msg) ==
    LET Keep(c) == c.device_id # exclude_device_id IN
    IF uid \in DOMAIN conns THEN SendEach(ch, SelectSeq(conns[uid], Keep), msg)
    ELSE ch

RECURSIVE broadcast_user_offline(_, _, _, _)
broadcast_user_offline(ch, conns, uid, contact_ids) ==
    IF contact_ids = {} THEN ch
    ELSE LET c == CHOOSE x \in contact_ids : TRUE IN
         broadcast_user_offline(send_to_user(ch, conns, c, UserOfflineFrame(uid)),
                                conns, uid, contact_ids \ {c})

\* ------------------------------------------------------------------------
\* core/src/crypto.rs: the CryptoEngine of a client.  Bytes are 0..255.  The
\* primitives of the crates the engine calls are small stand-ins with the
\* algebra of the real ones: X25519 is Diffie-Hellman in the integers modulo
\* a prime, SHA-256 a checksum, AES-256-GCM a keystream added to the
\* plaintext followed by a 16 byte tag over key, nonce and ciphertext in which
\* every byte has an odd weight, so that a change of one byte or of one
\* base64 character changes the tag.
\* ------------------------------------------------------------------------
KeyLen == 32
NonceLen == 12
TagLen == 16
ByteMod == 256
GroupPrime == 251
Generator == 6

Ok(v) == [ok |-> TRUE, val |-> v]
Err(e) == [ok |-> FALSE, err |-> e]

\* the sum of the first n bytes of x, the i-th with weight 2i - 1
RECURSIVE WeightedSumTo(_, _)
WeightedSumTo(x, n) ==
    IF n = 0 THEN 0 ELSE (WeightedSumTo(x, n - 1) + (2 * n - 1) * x[n]) % ByteMod

WeightedSum(x) == WeightedSumTo(x, Len(x))

RECURSIVE PowMod(_, _, _)
PowMod(b, e, m) == IF e = 0 THEN 1 % m ELSE (b * PowMod(b, e - 1, m)) % m

\* PublicKey::from(&secret)
PublicKey(secret) ==
    [i \in 1..KeyLen |-> IF i = 1 THEN PowMod(Generator, secret, GroupPrime) ELSE 0]

\* our_secret.diffie_hellman(&peer_public)
diffie_hellman(secret, peer_public) ==
    [i \in 1..KeyLen |-> IF i = 1 THEN PowMod(peer_public[1], secret, GroupPrime) ELSE 0]

\* Sha256::new().update(bytes).finalize()
Sha256(bytes) ==
    LET sum == WeightedSum(bytes) IN [i \in 1..KeyLen |-> (sum + 7 * i) % ByteMod]

\* URL_SAFE_NO_PAD.encode: three bytes make four characters, a rest of one
\* or two bytes makes two or three; a character is its index in the alphabet
RECURSIVE B64Encode(_)
B64Encode(bytes) ==
    IF Len(bytes) = 0 THEN <<>>
    ELSE IF Len(bytes) = 1
    THEN <<bytes[1] \div 4, (bytes[1] % 4) * 16>>
    ELSE IF Len(bytes) = 2
    THEN <<bytes[1] \div 4, (bytes[1] % 4) * 16 + bytes[2] \div 16, (bytes[2] % 16) * 4>>
    ELSE <<bytes[1] \div 4, (bytes[1] % 4) * 16 + bytes[2] \div 16,
           (bytes[2] % 16) * 4 + bytes[3] \div 64, bytes[3] % 64>>
         \o B64Encode(SubSeq(bytes, 4, Len(bytes)))

\* the bytes of characters that are known to be a valid encoding
RECURSIVE B64Bytes(_)
B64Bytes(chars) ==
    IF Len(chars) < 2 THEN <<>>
    ELSE IF Len(chars) = 2
    THEN <<chars[1] * 4 + chars[2] \div 16>>
    ELSE IF Len(chars) = 3
    THEN <<chars[1] * 4 + chars[2] \div 16, (chars[2] % 16) * 16 + chars[3] \div 4>>
    ELSE <<chars[1] * 4 + chars[2] \div 16, (chars[2] % 16) * 16 + chars[3] \div 4,
           (chars[3] % 4) * 64 + chars[4]>>
         \o B64Bytes(SubSeq(chars, 5, Len(chars)))

\* a decoder that ignores the unused bits of the last character
TrailingBitsClear_Any(chars) == TRUE

\* the unused low bits of the last character must be zero
TrailingBitsClear(chars) ==
    CASE Len(chars) % 4 = 2 -> chars[Len(chars)] % 16 = 0
      [] Len(chars) % 4 = 3 -> chars[Len(chars)] % 4 = 0
      [] OTHER -> TRUE

\* URL_SAFE_NO_PAD.decode: no character outside the alphabet, no length of
\* 4n + 1, no trailing bits
B64Decode(chars) ==
    IF \E i \in 1..Len(chars) : chars[i] \notin 0..63 THEN Err("Invalid base64")
    ELSE IF Len(chars) % 4 = 1 THEN Err("Invalid base64")
    ELSE IF ~TrailingBitsClear(chars) THEN Err("Invalid base64")
    ELSE Ok(B64Bytes(chars))

\* Aes256Gcm::new_from_slice
CipherInit(key_bytes) ==
    IF Len(key_bytes) = KeyLen THEN Ok(key_bytes) ELSE Err("Cipher init failed")

\* the keystream of a key and a nonce: byte i is  seed + 13 i
KeySeed(key, nonce) == (WeightedSum(key) + WeightedSum(nonce)) % ByteMod

GcmTag(key, nonce, ciphertext) ==
    LET sum == (WeightedSum(key) + WeightedSum(nonce \o ciphertext)) % ByteMod IN
    [j \in 1..TagLen |-> (sum + j) % ByteMod]

\* cipher.encrypt(nonce, plaintext): ciphertext followed by the tag
GcmEncrypt(key, nonce, plaintext) ==
    LET seed == KeySeed(key, nonce)
        ciphertext == [i \in 1..Len(plaintext) |->
                          (plaintext[i] + seed + 13 * i) % ByteMod]
    IN ciphertext \o GcmTag(key, nonce, ciphertext)

\* a decryption that does not compare the tag
TagMatches_Any(key, nonce, ciphertext, tag) == TRUE

TagMatches(key, nonce, ciphertext, tag) == tag = GcmTag(key, nonce, ciphertext)

\* cipher.decrypt(nonce, ciphertext)
GcmDecrypt(key, nonce, body) ==
    IF Len(body) < TagLen THEN Err("Decryption failed")
    ELSE LET ciphertext == SubSeq(body, 1, Len(body) - TagLen)
             tag == SubSeq(body, Len(body) - TagLen + 1, Len(body))
             seed == KeySeed(key, nonce)
         IN IF ~TagMatches(key, nonce, ciphertext, tag) THEN Err("Decryption failed")
            ELSE Ok([i \in 1..Len(ciphertext) |->
                        (ciphertext[i] + 14 * ByteMod - seed - 13 * i) % ByteMod])

\* String::from_utf8 on the strings of the model, which are ASCII
FromUtf8(bytes) ==
    IF \A i \in 1..Len(bytes) : bytes[i] < 128 THEN Ok(bytes) ELSE Err("Invalid UTF-8")

\* ------------------------------------------------------------------------
\* The server's access-key hash, character by character
\* ------------------------------------------------------------------------
\* bit i of a u8, and the u8 of eight bits
Bit(a, i) == (a \div (2 ^ i)) % 2

FromBits(f) ==
    f[0] + 2 * f[1] + 4 * f[2] + 8 * f[3] + 16 * f[4] + 32 * f[5] + 64 * f[6] + 128 * f[7]

\* a ^ b and a | b on u8
BitXor(a, b) == FromBits([i \in 0..7 |-> (Bit(a, i) + Bit(b, i)) % 2])

BitOr(a, b) == FromBits([i \in 0..7 |-> IF Bit(a, i) + Bit(b, i) > 0 THEN 1 ELSE 0])

\* hex::encode: two lowercase digits for a byte, as ASCII codes
HexDigit(n) == IF n < 10 THEN 48 + n ELSE 87 + n

hex_encode(bytes) ==
    [i \in 1..(2 * Len(bytes)) |->
        IF i % 2 = 1 THEN HexDigit(bytes[(i + 1) \div 2] \div 16)
        ELSE HexDigit(bytes[i \div 2] % 16)]

\* hash_access_key on the bytes of the key
hash_access_key_bytes(key) == hex_encode(Sha256(key))

\* a comparison that does not look at the lengths
SameLength_Any(a, b) == TRUE

\* computed_hash.len() != hash.len() returns false
SameLength(a, b) == Len(a) = Len(b)

\* zip stops at the shorter of the two
ZipLen(a, b) == IF Len(a) < Len(b) THEN Len(a) ELSE Len(b)

\* access keys as bytes: "k1", "k2" and ""
KeyStrings == {<<107, 49>>, <<107, 50>>, <<>>}

\* what the key_hash column may hold for a key: its hash, its hash with one
\* character changed, without its last character, or with one character more
StoredHashes(key) ==
    LET hash == hash_access_key_bytes(key) IN
    {[variant |-> "hash", at |-> 0, hash |-> hash],
     [variant |-> "shorter", at |-> 0, hash |-> SubSeq(hash, 1, Len(hash) - 1)],
     [variant |-> "longer", at |-> 0, hash |-> hash \o <<48>>]}
        \cup {[variant |-> "changed", at |-> i,
               hash |-> [hash EXCEPT ![i] = IF @ = 48 THEN 49 ELSE 48]] :
                  i \in 1..Len(hash)}

\* the clients, also the peer ids they know each other by
Engines == {"alice", "bob"}
\* what OsRng may draw: identity secrets and nonces
Secrets == {3, 5}
Nonces == {[i \in 1..NonceLen |-> 0], [i \in 1..NonceLen |-> 3 * i]}
\* "", "H" and "Hi"
Plaintexts == {<<>>, <<72>>, <<72, 105>>}
\* the messages a client sends: "" and "Hi"
Messages == {<<>>, <<72, 105>>}

\* secret.as_bytes() and StaticSecret::from(key_bytes)
SecretBytes(secret) == [i \in 1..KeyLen |-> IF i = 1 THEN secret ELSE 0]
StaticSecretFrom(key_bytes) == key_bytes[1]

export_identity(e) == B64Encode(SecretBytes(identity[e].val))

get_public_key(e) == B64Encode(identity_public[e].val)

\* the keys a peer may hand over: public keys, a key of 31 bytes and a string
\* that is not base64
PeerKeys ==
    {B64Encode(PublicKey(x)) : x \in Secrets}
        \cup {B64Encode([i \in 1..(KeyLen - 1) |-> 1]), <<64>>}

establish_session_result(e, peer_public_key_b64) ==
    LET peer_bytes == B64Decode(peer_public_key_b64) IN
    IF ~peer_bytes.ok THEN Err("Invalid peer key")
    ELSE IF Len(peer_bytes.val) # KeyLen THEN Err("Invalid peer key length")
    ELSE IF ~identity[e].some THEN Err("No identity")
    ELSE Ok([shared_secret |-> Sha256(diffie_hellman(identity[e].val, peer_bytes.val))])

encrypt_for_result(e, peer_id, plaintext, nonce_bytes) ==
    IF peer_id \notin DOMAIN peer_sessions[e] THEN Err("NoSession")
    ELSE LET cipher == CipherInit(peer_sessions[e][peer_id].shared_secret) IN
         IF ~cipher.ok THEN cipher
         ELSE Ok(B64Encode(nonce_bytes \o GcmEncrypt(cipher.val, nonce_bytes, plaintext)))

decrypt_from_result(e, peer_id, ciphertext_b64) ==
    IF peer_id \notin DOMAIN peer_sessions[e] THEN Err("NoSession")
    ELSE LET combined == B64Decode(ciphertext_b64) IN
         IF ~combined.ok THEN Err("Invalid ciphertext")
         ELSE IF Len(combined.val) < NonceLen THEN Err("Ciphertext too short")
         ELSE LET cipher == CipherInit(peer_sessions[e][peer_id].shared_secret)
                  nonce == SubSeq(combined.val, 1, NonceLen)
                  ciphertext == SubSeq(combined.val, NonceLen + 1, Len(combined.val))
              IN IF ~cipher.ok THEN cipher
                 ELSE LET plaintext == GcmDecrypt(cipher.val, nonce, ciphertext) IN
                      IF ~plaintext.ok THEN plaintext ELSE FromUtf8(plaintext.val)

encrypt_file_result(data, key_b64, nonce_bytes) ==
    LET key_bytes == B64Decode(key_b64) IN
    IF ~key_bytes.ok THEN Err("Invalid key")
    ELSE LET cipher == CipherInit(key_bytes.val) IN
         IF ~cipher.ok THEN cipher
         ELSE Ok(nonce_bytes \o GcmEncrypt(cipher.val, nonce_bytes, data))

decrypt_file_result(encrypted, key_b64) ==
    IF Len(encrypted) < NonceLen THEN Err("Data too short")
    ELSE LET key_bytes == B64Decode(key_b64) IN
         IF ~key_bytes.ok THEN Err("Invalid key")
         ELSE LET cipher == CipherInit(key_bytes.val) IN
              IF ~cipher.ok THEN cipher
              ELSE GcmDecrypt(cipher.val, SubSeq(encrypted, 1, NonceLen),
                              SubSeq(encrypted, NonceLen + 1, Len(encrypted)))

NoWire == [kind |-> "none"]
NoOutcome == [op |-> "none"]

\* every variable of the server
serverVars ==
    <<now, dbVars, regVars, sockVars, chan, frames, limit, response, fileVars>>

\* generate_identity, once for each client; OsRng draws the secret
generate_identity(e, secret) ==
    /\ ~identity[e].some
    /\ identity' = [identity EXCEPT ![e] = Some(secret)]
    /\ identity_public' = [identity_public EXCEPT ![e] = Some(PublicKey(secret))]
    /\ outcome' = [op |-> "generate_identity", engine |-> e, result |-> Ok(None)]
    /\ UNCHANGED <<serverVars, calls, peer_sessions, wire>>

establish_session(e, peer_id, peer_public_key_b64) ==
    LET result == establish_session_result(e, peer_public_key_b64) IN
    /\ peer_sessions' =
           IF result.ok
           THEN [peer_sessions EXCEPT ![e] =
                    [q \in DOMAIN @ \cup {peer_id} |->
                        IF q = peer_id THEN result.val ELSE @[q]]]
           ELSE peer_sessions
    /\ outcome' = [op |-> "establish_session", engine |-> e, peer |-> peer_id,
                   result |-> IF result.ok THEN Ok(None) ELSE result]
    /\ UNCHANGED <<serverVars, calls, identity, identity_public, wire>>

\* encrypt_for; OsRng draws the nonce
encrypt_for(e, peer_id, plaintext, nonce_bytes) ==
    LET result == encrypt_for_result(e, peer_id, plaintext, nonce_bytes) IN
    /\ wire' = IF result.ok
               THEN [kind |-> "message", sender |-> e, peer |-> peer_id,
                     plaintext |-> plaintext,
                     key |-> peer_sessions[e][peer_id].shared_secret,
                     frame |-> result.val]
               ELSE wire
    /\ outcome' = [op |-> "encrypt_for", engine |-> e, peer |-> peer_id,
                   result |-> result]
    /\ UNCHANGED <<serverVars, calls, identity, identity_public, peer_sessions>>

decrypt_from(e, peer_id, ciphertext_b64) ==
    /\ outcome' = [op |-> "decrypt_from", engine |-> e, peer |-> peer_id,
                   intact |-> wire.kind = "message" /\ ciphertext_b64 = wire.frame,
                   result |-> decrypt_from_result(e, peer_id, ciphertext_b64)]
    /\ UNCHANGED <<serverVars, calls, identity, identity_public, peer_sessions, wire>>

\* encrypt_file; OsRng draws the nonce
encrypt_file(data, key_b64, nonce_bytes) ==
    LET result == encrypt_file_result(data, key_b64, nonce_bytes) IN
    /\ wire' = IF result.ok
               THEN [kind |-> "file", key |-> key_b64, data |-> data,
                     frame |-> result.val]
               ELSE wire
    /\ outcome' = [op |-> "encrypt_file", key |-> key_b64, result |-> result]
    /\ UNCHANGED <<serverVars, calls, identity, identity_public, peer_sessions>>

decrypt_file(encrypted, key_b64) ==
    /\ outcome' = [op |-> "decrypt_file", key |-> key_b64,
                   intact |-> wire.kind = "file" /\ encrypted = wire.frame,
                   result |-> decrypt_file_result(encrypted, key_b64)]
    /\ UNCHANGED <<serverVars, calls, identity, identity_public, peer_sessions, wire>>

\* a key_hash is stored for a key, between two verifications
StoreKeyHash(key, stored) ==
    /\ outcome.op = "verify_access_key" => outcome.done
    /\ wire' = [kind |-> "key_hash", of |-> key, variant |-> stored.variant,
                at |-> stored.at, hash |-> stored.hash]
    /\ outcome' = NoOutcome
    /\ UNCHANGED <<serverVars, calls, identity, identity_public, peer_sessions>>

\* verify_access_key(key, hash) up to the fold: the hash is computed and
\* the lengths are compared
VerifyAccessKey(key) ==
    /\ wire.kind = "key_hash"
    /\ outcome.op = "verify_access_key" => outcome.done
    /\ outcome' =
           IF ~SameLength(hash_access_key_bytes(key), wire.hash)
           THEN [op |-> "verify_access_key", key |-> key, folded |-> 0, acc |-> 0,
                 done |-> TRUE, result |-> FALSE]
           ELSE [op |-> "verify_access_key", key |-> key, folded |-> 0, acc |-> 0,
                 done |-> FALSE, result |-> FALSE]
    /\ UNCHANGED <<serverVars, calls, identity, identity_public, peer_sessions, wire>>

\* one turn of .zip(..).fold(0u8, |acc, (a, b)| acc | (a ^ b)); there is no
\* early exit
FoldPair ==
    LET computed_hash == hash_access_key_bytes(outcome.key)
        i == outcome.folded + 1
    IN /\ outcome.op = "verify_access_key" /\ ~outcome.done
       /\ outcome.folded < ZipLen(computed_hash, wire.hash)
       /\ outcome' = [outcome EXCEPT
              !.folded = i,
              !.acc = BitOr(@, BitXor(computed_hash[i], wire.hash[i]))]
       /\ UNCHANGED <<serverVars, calls, identity, identity_public, peer_sessions, wire>>

\* the fold has consumed every pair: == 0
FoldReturn ==
    /\ outcome.op = "verify_access_key" /\ ~outcome.done
    /\ outcome.folded = ZipLen(hash_access_key_bytes(outcome.key), wire.hash)
    /\ outcome' = [outcome EXCEPT !.done = TRUE, !.result = (outcome.acc = 0)]
    /\ UNCHANGED <<serverVars, calls, identity, identity_public, peer_sessions, wire>>

\* a sequence with one element moved by d, for every position and every d
AlteredSeq(seq, deltas, modulus) ==
    {[seq EXCEPT ![i] = (@ + d) % modulus] : i \in 1..Len(seq), d \in deltas}

\* what may arrive as a message frame: the frame on the wire, that frame
\* with one character changed (the first one also to a character outside the
\* alphabet), or with its last character cut off
ReceivedFrames ==
    IF wire.kind # "message" THEN {<<>>}
    ELSE {wire.frame, SubSeq(wire.frame, 1, Len(wire.frame) - 1)}
             \cup AlteredSeq(wire.frame, {1, 16}, 64)
             \cup {[wire.frame EXCEPT ![1] = 64]}

\* the file keys a client may hold: two keys of generate_file_key, the first
\* of them with the unused bits of its last character set, and the encoding
\* of 31 bytes
FileKey1 == B64Encode([i \in 1..KeyLen |-> 17])
FileKey2 == B64Encode([i \in 1..KeyLen |-> IF i = KeyLen THEN 18 ELSE 17])
FileKeys ==
    {FileKey1, FileKey2, [FileKey1 EXCEPT ![Len(FileKey1)] = @ + 1],
     B64Encode([i \in 1..(KeyLen - 1) |-> 17])}

\* what may be handed to decrypt_file: the encrypted file, that file with
\* one byte changed, or cut short
ReceivedFiles ==
    IF wire.kind # "file" THEN {<<>>}
    ELSE {wire.frame, SubSeq(wire.frame, 1, NonceLen - 1)}
             \cup AlteredSeq(wire.frame, {1, 128}, ByteMod)

\* ------------------------------------------------------------------------
\* Init: two users; u1 has logged in from d1 and d2, u2 from d3; u2 also
\* holds a session that has expired and one that was invalidated.
\* ------------------------------------------------------------------------
SessionRow(u, d, exp, valid) ==
    [user_id |-> u, device_id |-> d, expires_at |-> ToRfc3339(exp), is_valid |-> valid]

InitSessions ==
    (hash_access_key("t1") :> SessionRow("u1", "d1", T0 + SessionTtl, TRUE)) @@
    (hash_access_key("t2") :> SessionRow("u1", "d2", T0 + SessionTtl, TRUE)) @@
    (hash_access_key("t3") :> SessionRow("u2", "d3", T0 + SessionTtl, TRUE)) @@
    (hash_access_key("tOld") :> SessionRow("u2", "d3", 0, TRUE)) @@
    (hash_access_key("tInv") :> SessionRow("u2", "d3", T0 + SessionTtl, FALSE))

\* the access key that generate_key printed for a user
AccessKeyOf(u) == <<"key", u>>

Idle == [kind |-> "idle"]

\* a response without a body
NoBody == [empty |-> TRUE]

\* the worker threads of the runtime, and a thread that is in no call
Threads == {"a", "b"}
NoCall == [op |-> "none", pc |-> "done"]

\* no HTTP request was made yet
NoResponse ==
    [req |-> "none", token |-> None, arg |-> None, status |-> "none",
     out_token |-> None, out_device |-> None, body |-> NoBody]

InitState ==
    /\ now = T0
    /\ users = [u \in UserIds |-> [is_active |-> TRUE,
                                  key_hash |-> hash_access_key(AccessKeyOf(u))]]
    /\ devices = ("d1" :> [user_id |-> "u1"]) @@ ("d2" :> [user_id |-> "u1"])
                 @@ ("d3" :> [user_id |-> "u2"])
    /\ sessions = InitSessions
    /\ pending = <<>>
    /\ connections = EmptyMap
    /\ device_to_user = EmptyMap
    /\ open = [s \in Sockets |-> TRUE]
    /\ user_id = [s \in Sockets |-> None]
    /\ device_id = [s \in Sockets |-> None]
    /\ pc = [s \in Sockets |-> "idle"]
    /\ local = [s \in Sockets |-> Idle]
    /\ chan = [s \in Sockets |-> <<>>]
    /\ frames = [k \in FrameKinds |-> 0]
    /\ response = NoResponse
    /\ files = EmptyMap
    /\ disk = EmptyMap
    /\ reaped = Nothing
    /\ identity = [e \in Engines |-> Nothing]
    /\ identity_public = [e \in Engines |-> Nothing]
    /\ peer_sessions = [e \in Engines |-> EmptyMap]
    /\ wire = NoWire
    /\ outcome = NoOutcome
    /\ calls = [t \in Threads |-> NoCall]

\* relaying and acknowledging at one instant
Init ==
    /\ InitState
    /\ limit = [auth |-> MaxAuth, msg |-> MaxMsg, ack |-> MaxAck, close |-> 0,
                remove |-> 0, http |-> 0, reg |-> 0, unreg |-> 0, ticks |-> 0,
                reap |-> 0, file |-> 0, signal |-> 0]

\* sockets that authenticate and close, devices that are removed
InitLife ==
    /\ InitState
    /\ limit = [auth |-> MaxAuthLife, msg |-> 0, ack |-> 0, close |-> MaxClose,
                remove |-> MaxRemove, http |-> 0, reg |-> 0, unreg |-> 0, ticks |-> 0,
                reap |-> 0, file |-> 0, signal |-> 0]

\* senders and a recipient over time
InitOrder ==
    /\ InitState
    /\ limit = [auth |-> MaxAuthOrder, msg |-> MaxMsgOrder, ack |-> 0, close |-> 0,
                remove |-> 0, http |-> 0, reg |-> 0, unreg |-> 0, ticks |-> MaxTicks,
                reap |-> 0, file |-> 0, signal |-> 0]

\* accounts: logins, refreshes, logouts, deleted and revoked users
InitAccount ==
    /\ InitState
    /\ limit = [auth |-> MaxAuthAccount, msg |-> 0, ack |-> 0, close |-> 0,
                remove |-> 0, http |-> MaxHttp, reg |-> 0, unreg |-> 0, ticks |-> 0,
                reap |-> 0, file |-> 0, signal |-> 0]

\* the connection registry driven call by call
InitRegistry ==
    /\ InitState
    /\ limit = [auth |-> 0, msg |-> 0, ack |-> 0, close |-> 0, remove |-> 0,
                http |-> 0, reg |-> MaxRegister, unreg |-> MaxUnregister, ticks |-> 0,
                reap |-> 0, file |-> 0, signal |-> 0]

\* sessions and envelopes that reach their expires_at
InitExpiry ==
    /\ InitState
    /\ limit = [auth |-> MaxAuthExpiry, msg |-> MaxMsgExpiry, ack |-> 0, close |-> 0,
                remove |-> 0, http |-> 0, reg |-> 0, unreg |-> 0, ticks |-> MaxTicksExpiry,
                reap |-> 0, file |-> 0, signal |-> 0]

\* the cleanup task at work while envelopes, files and sessions come and age
InitReaper ==
    /\ InitState
    /\ limit = [auth |-> MaxAuthReaper, msg |-> MaxMsgReaper, ack |-> 0, close |-> 0,
                remove |-> 0, http |-> MaxHttpReaper, reg |-> 0, unreg |-> 0,
                ticks |-> MaxTicksReaper, reap |-> MaxReap, file |-> MaxFileReaper,
                signal |-> 0]

\* typing and call signaling between connected users
InitSignal ==
    /\ InitState
    /\ limit = [auth |-> MaxAuthSignal, msg |-> MaxMsgSignal, ack |-> 0, close |-> 0,
                remove |-> 0, http |-> 0, reg |-> 0, unreg |-> 0, ticks |-> 0,
                reap |-> 0, file |-> 0, signal |-> MaxSignal]

\* the admin routes while users are connected
InitAdmin ==
    /\ InitState
    /\ limit = [auth |-> MaxAuthAdmin, msg |-> 0, ack |-> 0, close |-> 0, remove |-> 0,
                http |-> MaxHttpAdmin, reg |-> 0, unreg |-> 0, ticks |-> 0,
                reap |-> 0, file |-> 0, signal |-> 0]

\* uploads, downloads and deletes of files
InitFiles ==
    /\ InitState
    /\ limit = [auth |-> 0, msg |-> 0, ack |-> 0, close |-> 0, remove |-> 0,
                http |-> 0, reg |-> 0, unreg |-> 0, ticks |-> MaxTicksFiles,
                reap |-> 0, file |-> MaxFile, signal |-> 0]

\* the clients' crypto engines, before any identity is generated; the server
\* takes no request
InitCrypto ==
    /\ InitState
    /\ limit = [auth |-> 0, msg |-> 0, ack |-> 0, close |-> 0, remove |-> 0,
                http |-> 0, reg |-> 0, unreg |-> 0, ticks |-> 0,
                reap |-> 0, file |-> 0, signal |-> 0]

\* register and unregister calls that run on two threads at a time
InitRace ==
    /\ InitState
    /\ limit = [auth |-> 0, msg |-> 0, ack |-> 0, close |-> 0, remove |-> 0,
                http |-> 0, reg |-> MaxRegisterRace, unreg |-> MaxUnregisterRace,
                ticks |-> 0, reap |-> 0, file |-> 0, signal |-> 0]

\* one more frame or request of this kind is within the bounds
Accept(kind) ==
    /\ frames[kind] < limit[kind]
    /\ frames' = [frames EXCEPT ![kind] = @ + 1]

\* a new frame is read only by an open socket whose task is between frames
CanRead(s) == open[s] /\ pc[s] = "idle"

Goto(s, label, loc) ==
    /\ pc' = [pc EXCEPT ![s] = label]
    /\ local' = [local EXCEPT ![s] = loc]

\* the clock advances by one second
Tick ==
    /\ now < T0 + limit["ticks"]
    /\ now' = now + 1
    /\ UNCHANGED <<dbVars, fileVars, cryptoVars, calls, regVars, sockVars, chan, frames, limit, response>>

\* ------------------------------------------------------------------------
\* WsClientMessage::Authenticate
\* ------------------------------------------------------------------------
\* the frame is read and validate_session runs on the database
AuthValidate(s, token) ==
    /\ CanRead(s)
    /\ Accept("auth")
    /\ Goto(s, "auth_validated", [kind |-> "auth", session |-> validate_session(token)])
    /\ UNCHANGED <<now, limit, fileVars, cryptoVars, calls, response, dbVars, regVars, open, user_id, device_id, chan>>

\* the else branch of  if let Ok(Some(session))
AuthFailedReply_Silent(ch, s) == ch

AuthFailedReply(ch, s) == Send(ch, s, ErrorFrame("AUTH_FAILED"))

\* the task resumes: register and answer, or AUTH_FAILED
AuthRegister(s) ==
    /\ pc[s] = "auth_validated"
    /\ IF local[s].session.some
       THEN LET session == local[s].session.val IN
            /\ user_id' = [user_id EXCEPT ![s] = session.user_id]
            /\ device_id' = [device_id EXCEPT ![s] = session.device_id]
            /\ connections' = register_connections(session.user_id, session.device_id, s)
            /\ device_to_user' = register_device_to_user(session.user_id, session.device_id)
            /\ chan' = Send(chan, s, AuthenticatedFrame(session.user_id, session.device_id))
            /\ Goto(s, "auth_fetch", [kind |-> "auth", session |-> local[s].session])
       ELSE /\ chan' = AuthFailedReply(chan, s)
            /\ Goto(s, "idle", Idle)
            /\ UNCHANGED <<user_id, device_id, regVars>>
    /\ UNCHANGED <<now, limit, fileVars, cryptoVars, calls, response, dbVars, open, frames>>

\* get_pending_messages runs on the database
AuthFetch(s) ==
    /\ pc[s] = "auth_fetch"
    /\ LET session == local[s].session.val IN
       Goto(s, "auth_push",
            [kind |-> "push",
             pending |-> get_pending_messages(session.user_id, session.device_id)])
    /\ UNCHANGED <<now, limit, fileVars, cryptoVars, calls, response, dbVars, regVars, open, user_id, device_id, chan, frames>>

PendingEnvelope(pm) ==
    [message_id |-> pm.message_id,
     sender_id |-> pm.sender_id,
     recipient_id |-> pm.recipient_id,
     recipient_device_id |-> pm.recipient_device_id,
     encrypted_content |-> pm.encrypted_content,
     message_type |-> MessageTypeFromString(pm.message_type),
     timestamp |-> parse_datetime_to_timestamp(pm.created_at)]

RECURSIVE PushPending(_, _, _)
PushPending(ch, s, rows) ==
    IF rows = <<>> THEN ch
    ELSE PushPending(Send(ch, s, MessageFrame(PendingEnvelope(Head(rows)))), s, Tail(rows))

\* the task resumes: every fetched row goes to the socket's own tx
AuthPush(s) ==
    /\ pc[s] = "auth_push"
    /\ chan' = PushPending(chan, s, local[s].pending)
    /\ Goto(s, "idle", Idle)
    /\ UNCHANGED <<now, limit, fileVars, cryptoVars, calls, response, dbVars, regVars, open, user_id, device_id, frames>>

\* ------------------------------------------------------------------------
\* WsClientMessage::Message
\* ------------------------------------------------------------------------
\* fanout to the recipient when online
DeliverDirect(ch, envelope) ==
    IF is_user_online(connections, envelope.recipient_id)
    THEN IF envelope.recipient_device_id # None
         THEN send_to_device(ch, connections, device_to_user,
                             envelope.recipient_device_id, MessageFrame(envelope))
         ELSE send_to_user(ch, connections, envelope.recipient_id, MessageFrame(envelope))
    ELSE ch

\* envelope.sender_id != *uid  rejects the frame
SenderVerified_Any(s, envelope) == TRUE

SenderVerified(s, envelope) == envelope.sender_id = user_id[s]

\* the frame is read: sender check, direct delivery, then the store is awaited
MsgRelay(s, envelope) ==
    /\ CanRead(s)
    /\ Accept("msg")
    /\ IF user_id[s] = None \/ device_id[s] = None
       THEN UNCHANGED <<chan, pc, local>>
       ELSE IF ~SenderVerified(s, envelope)
       THEN /\ chan' = Send(chan, s, ErrorFrame("INVALID_SENDER"))
            /\ UNCHANGED <<pc, local>>
       ELSE /\ chan' = DeliverDirect(chan, envelope)
            /\ Goto(s, "msg_store", [kind |-> "msg", envelope |-> envelope])
    /\ UNCHANGED <<now, limit, fileVars, cryptoVars, calls, response, dbVars, regVars, open, user_id, device_id>>

\* store_pending_message runs on the database; its error is dropped
MsgStore(s) ==
    /\ pc[s] = "msg_store"
    /\ pending' = store_pending_message(local[s].envelope)
    /\ Goto(s, "msg_echo", local[s])
    /\ UNCHANGED <<now, limit, fileVars, cryptoVars, calls, response, users, devices, sessions, regVars, open, user_id, device_id,
                   chan, frames>>

\* the task resumes: echo to the sender's other devices, ack to the sender
MsgEcho(s) ==
    /\ pc[s] = "msg_echo"
    /\ LET envelope == local[s].envelope
           echoed == send_to_other_devices(chan, connections, user_id[s], device_id[s],
                                           MessageFrame(envelope))
       IN chan' = Send(echoed, s, AcknowledgedFrame(<<envelope.message_id>>))
    /\ Goto(s, "idle", Idle)
    /\ UNCHANGED <<now, limit, fileVars, cryptoVars, calls, response, dbVars, regVars, open, user_id, device_id, frames>>

\* ------------------------------------------------------------------------
\* WsClientMessage::Acknowledge
\* ------------------------------------------------------------------------
AckRecv(s, message_ids) ==
    /\ CanRead(s)
    /\ Accept("ack")
    /\ Goto(s, "ack_delete", [kind |-> "ack", message_ids |-> message_ids, rest |-> message_ids])
    /\ UNCHANGED <<now, limit, fileVars, cryptoVars, calls, response, dbVars, regVars, open, user_id, device_id, chan>>

\* one DELETE of delete_pending_messages runs on the database
AckDelete(s) ==
    /\ pc[s] = "ack_delete"
    /\ local[s].rest # <<>>
    /\ pending' = delete_pending_message(pending, Head(local[s].rest))
    /\ local' = [local EXCEPT ![s].rest = Tail(@)]
    /\ UNCHANGED <<now, limit, fileVars, cryptoVars, calls, response, users, devices, sessions, regVars, open, user_id, device_id, pc,
                   chan, frames>>

\* the task resumes after the last DELETE
AckReply(s) ==
    /\ pc[s] = "ack_delete"
    /\ local[s].rest = <<>>
    /\ chan' = Send(chan, s, AcknowledgedFrame(local[s].message_ids))
    /\ Goto(s, "idle", Idle)
    /\ UNCHANGED <<now, limit, fileVars, cryptoVars, calls, response, dbVars, regVars, open, user_id, device_id, frames>>

\* ------------------------------------------------------------------------
\* WsClientMessage::Typing and WsClientMessage::CallSignal
\* ------------------------------------------------------------------------
Typing(s, recipient_id, is_typing) ==
    /\ CanRead(s)
    /\ Accept("signal")
    /\ chan' = IF user_id[s] # None
               THEN send_to_user(chan, connections, recipient_id,
                                 TypingFrame(user_id[s], is_typing))
               ELSE chan
    /\ UNCHANGED <<now, limit, fileVars, cryptoVars, calls, response, dbVars, regVars, sockVars>>

\* a signal that is forwarded whoever it names as its sender
CallSenderVerified_Any(s, signal) == TRUE

\* signal.sender_id != *uid  skips the frame
CallSenderVerified(s, signal) == signal.sender_id = user_id[s]

CallSignal(s, signal) ==
    /\ CanRead(s)
    /\ Accept("signal")
    /\ chan' = IF user_id[s] # None /\ CallSenderVerified(s, signal)
               THEN send_to_user(chan, connections, signal.recipient_id,
                                 CallSignalFrame(signal))
               ELSE chan
    /\ UNCHANGED <<now, limit, fileVars, cryptoVars, calls, response, dbVars, regVars, sockVars>>

\* the presence frame goes to every connection of every other online user
RECURSIVE broadcast_status(_, _, _, _, _)
broadcast_status(ch, conns, uid, status, online_users) ==
    IF online_users = {} THEN ch
    ELSE LET other_user == CHOOSE x \in online_users : TRUE
             sent == IF other_user # uid
                     THEN send_to_user(ch, conns, other_user, PresenceFrame(uid, status))
                     ELSE ch
         IN broadcast_status(sent, conns, uid, status, online_users \ {other_user})

Presence(s, status) ==
    /\ CanRead(s)
    /\ Accept("signal")
    /\ chan' = IF user_id[s] # None
               THEN broadcast_status(chan, connections, user_id[s], status,
                                     get_online_users(connections))
               ELSE chan
    /\ UNCHANGED <<now, limit, fileVars, cryptoVars, calls, response, dbVars, regVars, sockVars>>

\* ------------------------------------------------------------------------
\* Message::Close and the cleanup after the reader loop
\* ------------------------------------------------------------------------
\* the loop breaks; unregister, then update_user_last_seen is awaited
CloseUnregister(s) ==
    /\ CanRead(s)
    /\ Accept("close")
    /\ IF device_id[s] # None
       THEN /\ connections' = unregister_connections(device_id[s])
            /\ device_to_user' = unregister_device_to_user(device_id[s])
            /\ Goto(s, "closing", Idle)
            /\ UNCHANGED open
       ELSE /\ open' = [open EXCEPT ![s] = FALSE]
            /\ Goto(s, "closed", Idle)
            /\ UNCHANGED regVars
    /\ UNCHANGED <<now, limit, fileVars, cryptoVars, calls, response, dbVars, user_id, device_id, chan>>

\* the task resumes: user_offline when no device is left, then the writer
\* task is aborted
CloseBroadcast(s) ==
    /\ pc[s] = "closing"
    /\ chan' = IF ~is_user_online(connections, user_id[s])
               THEN broadcast_user_offline(chan, connections, user_id[s],
                                           get_online_users(connections))
               ELSE chan
    /\ open' = [open EXCEPT ![s] = FALSE]
    /\ Goto(s, "closed", Idle)
    /\ UNCHANGED <<now, limit, fileVars, cryptoVars, calls, response, dbVars, regVars, user_id, device_id, frames>>

\* ------------------------------------------------------------------------
\* HTTP handlers behind the AuthUser extractor
\* ------------------------------------------------------------------------
\* a request, the status of its response and what the response carries
Response(req, token, arg, status, out_token, out_device) ==
    [req |-> req, token |-> token, arg |-> arg, status |-> status,
     out_token |-> out_token, out_device |-> out_device, body |-> NoBody]

\* a response that carries a body
ResponseWith(req, token, arg, status, body) ==
    [req |-> req, token |-> token, arg |-> arg, status |-> status,
     out_token |-> None, out_device |-> None, body |-> body]

\* impl FromRequestParts for AuthUser: the bearer token must validate
AuthUser(token) == validate_session(token)

\* POST /api/v1/messages/ack
acknowledge_messages(token, message_ids) ==
    /\ Accept("ack")
    /\ IF AuthUser(token).some
       THEN /\ pending' = delete_pending_messages(pending, message_ids)
            /\ response' = Response("acknowledge_messages", token, None, "Ok", None, None)
       ELSE /\ UNCHANGED pending
            /\ response' = Response("acknowledge_messages", token, None, "Unauthorized",
                                    None, None)
    /\ UNCHANGED <<now, limit, fileVars, cryptoVars, calls, users, devices, sessions, regVars, sockVars, chan>>

\* the current-device guard of remove_device dropped
IsCurrentDevice_Never(did, auth) == FALSE

\* device_id == auth.device_id
IsCurrentDevice(did, auth) == did = auth.device_id

\* the status remove_device answers with
remove_device_status(token, did) ==
    LET auth == AuthUser(token) IN
    IF ~auth.some THEN "Unauthorized"
    ELSE IF did \notin DOMAIN devices THEN "NotFound"
    ELSE IF devices[did].user_id # auth.val.user_id THEN "Forbidden"
    ELSE IF IsCurrentDevice(did, auth.val) THEN "BadRequest"
    ELSE "Ok"

\* DELETE /api/v1/users/me/devices/{id}
remove_device(token, did) ==
    /\ Accept("remove")
    /\ response' = Response("remove_device", token, did, remove_device_status(token, did),
                            None, None)
    /\ IF remove_device_status(token, did) = "Ok"
       THEN /\ sessions' = delete_device_sessions(did)
            /\ devices' = delete_device_devices(did)
            /\ connections' = unregister_connections(did)
            /\ device_to_user' = unregister_device_to_user(did)
       ELSE UNCHANGED <<sessions, devices, regVars>>
    /\ UNCHANGED <<now, limit, fileVars, cryptoVars, calls, users, pending, sockVars, chan>>

\* ------------------------------------------------------------------------
\* handlers/auth.rs
\* ------------------------------------------------------------------------
\* a key that verifies against every hash
verify_access_key_Any(key, hash) == TRUE

\* the outcome of the comparison of the two hex strings, which VerifyAccessKey,
\* FoldPair and FoldReturn run character by character
verify_access_key(key, hash) == hash_access_key(key) = hash

verify_user_credentials(uid, access_key) ==
    /\ uid \in DOMAIN users
    /\ users[uid].is_active
    /\ verify_access_key(access_key, users[uid].key_hash)

\* INSERT INTO sessions with expires_at = now + ttl
create_session(rows, uid, did, token) ==
    [h \in DOMAIN rows \cup {hash_access_key(token)} |->
        IF h = hash_access_key(token)
        THEN SessionRow(uid, did, now + SessionTtl, TRUE)
        ELSE rows[h]]

\* a refresh that leaves the old row valid
invalidate_session_Keep(rows, token) == rows

\* UPDATE sessions SET is_valid = 0 WHERE token_hash = ?
invalidate_session(rows, token) ==
    [h \in DOMAIN rows |->
        IF h = hash_access_key(token) THEN [rows[h] EXCEPT !.is_valid = FALSE]
        ELSE rows[h]]

\* POST /api/v1/auth/login; generate_device_id and generate_session_token
\* draw new_device and new_token
login(uid, access_key, new_device, new_token) ==
    /\ Accept("http")
    /\ new_device \notin DOMAIN devices
    /\ hash_access_key(new_token) \notin DOMAIN sessions
    /\ IF verify_user_credentials(uid, access_key)
       THEN /\ devices' = [d \in DOMAIN devices \cup {new_device} |->
                              IF d = new_device THEN [user_id |-> uid] ELSE devices[d]]
            /\ sessions' = create_session(sessions, uid, new_device, new_token)
            /\ response' = Response("login", None, uid, "Ok", new_token, new_device)
       ELSE /\ UNCHANGED <<devices, sessions>>
            /\ response' = Response("login", None, uid, "InvalidCredentials", None, None)
    /\ UNCHANGED <<now, limit, fileVars, cryptoVars, calls, users, pending, regVars, sockVars, chan>>

\* POST /api/v1/auth/refresh
refresh_token(token, new_token) ==
    /\ Accept("http")
    /\ hash_access_key(new_token) \notin DOMAIN sessions
    /\ LET session == validate_session(token) IN
       IF session.some
       THEN /\ sessions' = create_session(invalidate_session(sessions, token),
                                          session.val.user_id, session.val.device_id,
                                          new_token)
            /\ response' = Response("refresh_token", token, None, "Ok", new_token,
                                    session.val.device_id)
       ELSE /\ UNCHANGED sessions
            /\ response' = Response("refresh_token", token, None, "Unauthorized", None, None)
    /\ UNCHANGED <<now, limit, fileVars, cryptoVars, calls, users, devices, pending, regVars, sockVars, chan>>

\* POST /api/v1/auth/logout: the handler logs and answers
logout(token) ==
    /\ Accept("http")
    /\ response' = Response("logout", token, None,
                            IF AuthUser(token).some THEN "Ok" ELSE "Unauthorized",
                            None, None)
    /\ UNCHANGED <<now, limit, fileVars, cryptoVars, calls, dbVars, regVars, sockVars, chan>>

\* ------------------------------------------------------------------------
\* handlers/admin.rs and the revoke-key command of main.rs
\* ------------------------------------------------------------------------
AdminKeys == {"master", "guess"}

\* config.admin.master_key
MasterKey == "master"

\* a check that every key passes
verify_admin_key_Any(provided) == TRUE

verify_admin_key(provided) == provided = MasterKey

\* a delete that leaves the sessions of the user in place
delete_user_sessions_Keep(uid) == sessions

\* DELETE FROM users: the rows of sessions, devices and pending_messages that
\* reference the user go with it (ON DELETE CASCADE)
delete_user_sessions(uid) ==
    [h \in {k \in DOMAIN sessions : sessions[k].user_id # uid} |-> sessions[h]]

delete_user_devices(uid) ==
    [d \in {k \in DOMAIN devices : devices[k].user_id # uid} |-> devices[d]]

delete_user_pending(uid) ==
    LET Keep(row) == row.sender_id # uid IN SelectSeq(pending, Keep)

delete_user_files(uid) ==
    [f \in {k \in DOMAIN files : files[k].uploader_id # uid} |-> files[f]]

\* DELETE /api/v1/admin/users/{user_id}
delete_user(admin_key, uid) ==
    /\ Accept("http")
    /\ IF verify_admin_key(admin_key)
       THEN /\ chan' = send_to_user(chan, connections, uid, ErrorFrame("ACCOUNT_DELETED"))
            /\ users' = [u \in DOMAIN users \ {uid} |-> users[u]]
            /\ devices' = delete_user_devices(uid)
            /\ sessions' = delete_user_sessions(uid)
            /\ pending' = delete_user_pending(uid)
            /\ files' = delete_user_files(uid)
            /\ response' = Response("delete_user", None, uid, "Ok", None, None)
       ELSE /\ UNCHANGED <<chan, dbVars, files>>
            /\ response' = Response("delete_user", None, uid, "Forbidden", None, None)
    /\ UNCHANGED <<now, limit, cryptoVars, calls, disk, reaped, regVars, sockVars>>

\* POST /api/v1/admin/users with a user_id; generate_access_key draws the key
create_user_status(admin_key, uid) ==
    IF ~verify_admin_key(admin_key) THEN "Forbidden"
    ELSE IF uid \in DOMAIN users THEN "UserAlreadyExists"
    ELSE "Ok"

create_user(admin_key, uid) ==
    /\ Accept("http")
    /\ IF create_user_status(admin_key, uid) = "Ok"
       THEN /\ users' = [u \in DOMAIN users \cup {uid} |->
                            IF u = uid
                            THEN [is_active |-> TRUE,
                                  key_hash |-> hash_access_key(AccessKeyOf(uid))]
                            ELSE users[u]]
            /\ response' = ResponseWith("create_user", None, uid, "Ok",
                                        [access_key |-> AccessKeyOf(uid)])
       ELSE /\ UNCHANGED users
            /\ response' = ResponseWith("create_user", None, uid,
                                        create_user_status(admin_key, uid), NoBody)
    /\ UNCHANGED <<now, limit, fileVars, cryptoVars, calls, devices, sessions, pending, regVars, sockVars,
                   chan>>

\* Storage::get_stats, with online_users set from the registry
ServerStats ==
    [total_users |-> Cardinality(DOMAIN users),
     active_users |-> Cardinality({u \in DOMAIN users : users[u].is_active}),
     online_users |-> Cardinality(DOMAIN connections),
     pending_messages |-> Len(pending),
     stored_files |-> Cardinality(DOMAIN files)]

\* GET /api/v1/admin/stats
get_stats(admin_key) ==
    /\ Accept("http")
    /\ response' = IF verify_admin_key(admin_key)
                   THEN ResponseWith("get_stats", None, None, "Ok", [stats |-> ServerStats])
                   ELSE ResponseWith("get_stats", None, None, "Forbidden", NoBody)
    /\ UNCHANGED <<now, limit, fileVars, cryptoVars, calls, dbVars, regVars, sockVars, chan>>

\* privmsg-server revoke-key: Storage::deactivate_user
revoke_key(admin_key, uid) ==
    /\ Accept("http")
    /\ IF verify_admin_key(admin_key)
       THEN /\ users' = [u \in DOMAIN users |->
                            IF u = uid THEN [users[u] EXCEPT !.is_active = FALSE]
                            ELSE users[u]]
            /\ sessions' = [h \in DOMAIN sessions |->
                               IF sessions[h].user_id = uid
                               THEN [sessions[h] EXCEPT !.is_valid = FALSE]
                               ELSE sessions[h]]
            /\ response' = Response("revoke_key", None, uid, "Ok", None, None)
       ELSE /\ UNCHANGED <<users, sessions>>
            /\ response' = Response("revoke_key", None, uid, "Forbidden", None, None)
    /\ UNCHANGED <<now, limit, fileVars, cryptoVars, calls, devices, pending, regVars, sockVars, chan>>

\* ------------------------------------------------------------------------
\* storage.rs: the files table, and handlers/files.rs
\* ------------------------------------------------------------------------
\* what generate_file_id may return, and the bodies a client may upload
FileIds == {"f1", "f2"}
FileBytes == {"x", "y"}

FileRow(uid) ==
    [uploader_id |-> uid, expires_at |-> ToRfc3339(now + MaxFileAge),
     download_count |-> 0]

\* SELECT ... FROM files WHERE file_id = ? AND expires_at > datetime('now')
get_file_metadata(rows, file_id) ==
    IF file_id \in DOMAIN rows /\ TextGt(rows[file_id].expires_at, SqlDatetime(now))
    THEN Some(rows[file_id])
    ELSE Nothing

increment_download_count(rows, file_id) ==
    [f \in DOMAIN rows |->
        IF f = file_id THEN [rows[f] EXCEPT !.download_count = @ + 1] ELSE rows[f]]

delete_file_metadata(rows, file_id) == [f \in DOMAIN rows \ {file_id} |-> rows[f]]

\* POST /api/v1/files/upload with a file part and an encryption_key_hash
upload_file(token, data, new_file) ==
    /\ Accept("file")
    /\ new_file \notin DOMAIN files
    /\ new_file \notin DOMAIN disk
    /\ IF AuthUser(token).some
       THEN /\ files' = [f \in DOMAIN files \cup {new_file} |->
                            IF f = new_file THEN FileRow(AuthUser(token).val.user_id)
                            ELSE files[f]]
            /\ disk' = [f \in DOMAIN disk \cup {new_file} |->
                           IF f = new_file THEN data ELSE disk[f]]
            /\ response' = ResponseWith("upload_file", token, new_file, "Ok", NoBody)
       ELSE /\ UNCHANGED <<files, disk>>
            /\ response' = ResponseWith("upload_file", token, None, "Unauthorized", NoBody)
    /\ UNCHANGED <<now, limit, cryptoVars, calls, reaped, dbVars, regVars, sockVars, chan>>

download_file_status(token, file_id) ==
    IF ~AuthUser(token).some THEN "Unauthorized"
    ELSE IF ~get_file_metadata(files, file_id).some THEN "NotFound"
    ELSE IF file_id \notin DOMAIN disk THEN "NotFound"
    ELSE "Ok"

\* GET /api/v1/files/{file_id}
download_file(token, file_id) ==
    /\ Accept("file")
    /\ IF download_file_status(token, file_id) = "Ok"
       THEN /\ files' = increment_download_count(files, file_id)
            /\ response' = ResponseWith("download_file", token, file_id, "Ok",
                                        [bytes |-> disk[file_id]])
       ELSE /\ UNCHANGED files
            /\ response' = ResponseWith("download_file", token, file_id,
                                        download_file_status(token, file_id), NoBody)
    /\ UNCHANGED <<now, limit, cryptoVars, calls, disk, reaped, dbVars, regVars, sockVars, chan>>

\* a delete that any authenticated user may make
IsUploader_Any(metadata, auth) == TRUE

\* metadata.uploader_id != auth.user_id  is Forbidden
IsUploader(metadata, auth) == metadata.uploader_id = auth.user_id

delete_file_status(token, file_id) ==
    IF ~AuthUser(token).some THEN "Unauthorized"
    ELSE IF ~get_file_metadata(files, file_id).some THEN "NotFound"
    ELSE IF ~IsUploader(get_file_metadata(files, file_id).val, AuthUser(token).val)
    THEN "Forbidden"
    ELSE "Ok"

\* DELETE /api/v1/files/{file_id}
delete_file(token, file_id) ==
    /\ Accept("file")
    /\ response' = ResponseWith("delete_file", token, file_id,
                                delete_file_status(token, file_id), NoBody)
    /\ IF delete_file_status(token, file_id) = "Ok"
       THEN /\ disk' = [f \in DOMAIN disk \ {file_id} |-> disk[f]]
            /\ files' = delete_file_metadata(files, file_id)
       ELSE UNCHANGED <<files, disk>>
    /\ UNCHANGED <<now, limit, cryptoVars, calls, reaped, dbVars, regVars, sockVars, chan>>

\* ------------------------------------------------------------------------
\* storage.rs: cleanup_expired, run by the cleanup task of run_server
\* ------------------------------------------------------------------------
\* expires_at <= datetime('now'), compared as TEXT
ExpiredAt(row, t) == ~TextGt(row.expires_at, SqlDatetime(t))

\* DELETE FROM pending_messages WHERE expires_at <= datetime('now')
cleanup_pending(rows, t) ==
    LET Keep(row) == ~ExpiredAt(row, t) IN SelectSeq(rows, Keep)

\* DELETE FROM files WHERE expires_at <= datetime('now')
cleanup_files(rows, t) ==
    [f \in {k \in DOMAIN rows : ~ExpiredAt(rows[k], t)} |-> rows[f]]

\* a DELETE that stops after the first row it removed
cleanup_sessions_One(rows, t) ==
    LET gone == {k \in DOMAIN rows : ExpiredAt(rows[k], t) \/ ~rows[k].is_valid} IN
    IF gone = {} THEN rows
    ELSE [h \in DOMAIN rows \ {CHOOSE k \in gone : TRUE} |-> rows[h]]

\* DELETE FROM sessions WHERE expires_at <= datetime('now') OR is_valid = 0
cleanup_sessions(rows, t) ==
    [h \in {k \in DOMAIN rows : ~(ExpiredAt(rows[k], t) \/ ~rows[k].is_valid)} |->
        rows[h]]

\* Ok((messages_result.rows_affected(), files_result.rows_affected()))
Reaped(msgs, fs) == Some([messages |-> msgs, files |-> fs])

\* one tick of the cleanup task
cleanup_expired ==
    /\ Accept("reap")
    /\ pending' = cleanup_pending(pending, now)
    /\ files' = cleanup_files(files, now)
    /\ sessions' = cleanup_sessions(sessions, now)
    /\ reaped' = Reaped(Len(pending) - Len(cleanup_pending(pending, now)),
                        Cardinality(DOMAIN files)
                            - Cardinality(DOMAIN cleanup_files(files, now)))
    /\ UNCHANGED <<now, limit, cryptoVars, calls, users, devices, disk, regVars, sockVars, chan, response>>

Next ==
    \/ \E s \in Sockets : \E token \in Tokens : AuthValidate(s, token)
    \/ \E s \in Sockets : AuthRegister(s)
    \/ \E s \in Sockets : AuthFetch(s)
    \/ \E s \in Sockets : AuthPush(s)
    \/ \E s \in Sockets : \E envelope \in Envelopes : MsgRelay(s, envelope)
    \/ \E s \in Sockets : MsgStore(s)
    \/ \E s \in Sockets : MsgEcho(s)
    \/ \E s \in Sockets : \E ids \in AckLists : AckRecv(s, ids)
    \/ \E s \in Sockets : AckDelete(s)
    \/ \E s \in Sockets : AckReply(s)
    \/ \E token \in Tokens : \E ids \in AckLists : acknowledge_messages(token, ids)

Spec == Init /\ [][Next]_vars

NextLife ==
    \/ \E s \in Sockets : \E token \in Tokens : AuthValidate(s, token)
    \/ \E s \in Sockets : AuthRegister(s)
    \/ \E s \in Sockets : AuthFetch(s)
    \/ \E s \in Sockets : AuthPush(s)
    \/ \E s \in Sockets : CloseUnregister(s)
    \/ \E s \in Sockets : CloseBroadcast(s)
    \/ \E token \in Tokens : \E did \in DeviceIds : remove_device(token, did)

SpecLife == InitLife /\ [][NextLife]_vars

\* envelopes addressed to a user, not to one device
EnvelopesOrder == {e \in Envelopes : e.recipient_device_id = None}

NextOrder ==
    \/ Tick
    \/ \E s \in Sockets : \E token \in Tokens : AuthValidate(s, token)
    \/ \E s \in Sockets : AuthRegister(s)
    \/ \E s \in Sockets : AuthFetch(s)
    \/ \E s \in Sockets : AuthPush(s)
    \/ \E s \in Sockets : \E envelope \in EnvelopesOrder : MsgRelay(s, envelope)
    \/ \E s \in Sockets : MsgStore(s)
    \/ \E s \in Sockets : MsgEcho(s)

SpecOrder == InitOrder /\ [][NextOrder]_vars

SpecExpiry == InitExpiry /\ [][NextOrder]_vars

AccessKeys == {AccessKeyOf(u) : u \in UserIds}

NextAccount ==
    \/ \E s \in Sockets : \E token \in Tokens \cup NewTokens : AuthValidate(s, token)
    \/ \E s \in Sockets : AuthRegister(s)
    \/ \E s \in Sockets : AuthFetch(s)
    \/ \E s \in Sockets : AuthPush(s)
    \/ \E uid \in LoginUserIds : \E key \in AccessKeys :
       \E d \in NewDevices : \E t \in NewTokens : login(uid, key, d, t)
    \/ \E token \in Tokens \cup NewTokens : \E t \in NewTokens : refresh_token(token, t)
    \/ \E token \in Tokens \cup NewTokens : logout(token)
    \/ \E key \in AdminKeys : \E uid \in UserIds : delete_user(key, uid)
    \/ \E key \in AdminKeys : \E uid \in UserIds : revoke_key(key, uid)

SpecAccount == InitAccount /\ [][NextAccount]_vars

\* ------------------------------------------------------------------------
\* WebSocketManager on its own, as tests::test_connection_management drives
\* it: register and unregister calls on device ids that are not connected
\* twice at a time
\* ------------------------------------------------------------------------
get_user_devices(conns, uid) ==
    IF uid \in DOMAIN conns
    THEN [i \in 1..Len(conns[uid]) |-> conns[uid][i].device_id]
    ELSE <<>>

online_user_count(conns) == Cardinality(DOMAIN conns)

register(uid, did, s) ==
    /\ Accept("reg")
    /\ did \notin DOMAIN device_to_user
    /\ connections' = register_connections(uid, did, s)
    /\ device_to_user' = register_device_to_user(uid, did)
    /\ UNCHANGED <<now, limit, fileVars, cryptoVars, calls, response, dbVars, sockVars, chan>>

unregister(did) ==
    /\ Accept("unreg")
    /\ connections' = unregister_connections(did)
    /\ device_to_user' = unregister_device_to_user(did)
    /\ UNCHANGED <<now, limit, fileVars, cryptoVars, calls, response, dbVars, sockVars, chan>>

NextRegistry ==
    \/ \E uid \in UserIds : \E did \in DeviceIds : \E s \in Sockets : register(uid, did, s)
    \/ \E did \in DeviceIds : unregister(did)

SpecRegistry == InitRegistry /\ [][NextRegistry]_vars

\* ------------------------------------------------------------------------
\* WebSocketManager map operation by map operation.  A DashMap locks the
\* shard of a key for one operation, or for as long as a guard is held; the
\* two maps are not locked together, and the runtime runs register and
\* unregister of different sockets on different threads.
\* ------------------------------------------------------------------------
Returned(t) == calls[t].pc = "done"

Return(t) == calls' = [calls EXCEPT ![t].pc = "done"]

\* register is entered:
\* connections.entry(user_id).or_insert_with(Vec::new).push(connection)
RegisterPush(t, uid, did, s) ==
    /\ Returned(t)
    /\ Accept("reg")
    /\ connections' = register_connections(uid, did, s)
    /\ calls' = [calls EXCEPT ![t] =
           [op |-> "register", pc |-> "insert", user_id |-> uid, device_id |-> did,
            sender |-> s]]
    /\ UNCHANGED <<now, limit, fileVars, cryptoVars, response, dbVars, sockVars, chan,
                   device_to_user>>

\* device_to_user.insert(device_id, user_id)
RegisterInsert(t) ==
    /\ calls[t].op = "register" /\ calls[t].pc = "insert"
    /\ device_to_user' = register_device_to_user(calls[t].user_id, calls[t].device_id)
    /\ Return(t)
    /\ UNCHANGED <<now, limit, frames, fileVars, cryptoVars, response, dbVars, sockVars,
                   chan, connections>>

\* unregister is entered: device_to_user.remove(device_id)
UnregisterRemoveDevice(t, did) ==
    /\ Returned(t)
    /\ Accept("unreg")
    /\ device_to_user' = unregister_device_to_user(did)
    /\ calls' = [calls EXCEPT ![t] =
           IF did \in DOMAIN device_to_user
           THEN [op |-> "unregister", pc |-> "retain", device_id |-> did,
                 user_id |-> device_to_user[did]]
           ELSE [op |-> "unregister", pc |-> "done", device_id |-> did,
                 user_id |-> None]]
    /\ UNCHANGED <<now, limit, fileVars, cryptoVars, response, dbVars, sockVars, chan,
                   connections>>

\* connections.get_mut(&user_id), retain and is_empty under the guard; the
\* guard is dropped before the entry is removed
UnregisterRetain(t) ==
    LET uid == calls[t].user_id
        Keep(c) == c.device_id # calls[t].device_id
    IN /\ calls[t].op = "unregister" /\ calls[t].pc = "retain"
       /\ IF uid \notin DOMAIN connections
          THEN /\ UNCHANGED connections
               /\ Return(t)
          ELSE /\ connections' = [connections EXCEPT ![uid] = SelectSeq(@, Keep)]
               /\ IF SelectSeq(connections[uid], Keep) = <<>>
                  THEN calls' = [calls EXCEPT ![t].pc = "remove"]
                  ELSE Return(t)
       /\ UNCHANGED <<now, limit, frames, fileVars, cryptoVars, response, dbVars,
                      sockVars, chan, device_to_user>>

\* self.connections.remove(&user_id)
UnregisterRemoveUser(t) ==
    /\ calls[t].op = "unregister" /\ calls[t].pc = "remove"
    /\ connections' = [u \in DOMAIN connections \ {calls[t].user_id} |-> connections[u]]
    /\ Return(t)
    /\ UNCHANGED <<now, limit, frames, fileVars, cryptoVars, response, dbVars, sockVars,
                   chan, device_to_user>>

\* each socket registers the device of its session
NextRace ==
    \/ \E t \in Threads : \E did \in DeviceIds : \E s \in Sockets :
           RegisterPush(t, devices[did].user_id, did, s)
    \/ \E t \in Threads : RegisterInsert(t)
    \/ \E t \in Threads : \E did \in DeviceIds : UnregisterRemoveDevice(t, did)
    \/ \E t \in Threads : UnregisterRetain(t)
    \/ \E t \in Threads : UnregisterRemoveUser(t)

SpecRace == InitRace /\ [][NextRace]_vars

\* ------------------------------------------------------------------------
\* The cleanup task among the handlers that fill the three tables it reaps
\* ------------------------------------------------------------------------
\* the tokens of the clients of this scenario
TokensReaper == {"t1", "tBad"}

NextReaper ==
    \/ Tick
    \/ cleanup_expired
    \/ \E s \in Sockets : \E token \in TokensReaper : AuthValidate(s, token)
    \/ \E s \in Sockets : AuthRegister(s)
    \/ \E s \in Sockets : AuthFetch(s)
    \/ \E s \in Sockets : AuthPush(s)
    \/ \E s \in Sockets : \E envelope \in EnvelopesOrder : MsgRelay(s, envelope)
    \/ \E s \in Sockets : MsgStore(s)
    \/ \E s \in Sockets : MsgEcho(s)
    \/ \E token \in TokensReaper : \E data \in FileBytes : \E f \in FileIds :
           upload_file(token, data, f)
    \/ \E token \in TokensReaper : \E t \in NewTokens : refresh_token(token, t)

SpecReaper == InitReaper /\ [][NextReaper]_vars

\* the tokens of the two users of this scenario, and one that is refused
TokensSignal == {"t1", "t3", "tBad"}

NextSignal ==
    \/ \E s \in Sockets : \E token \in TokensSignal : AuthValidate(s, token)
    \/ \E s \in Sockets : AuthRegister(s)
    \/ \E s \in Sockets : AuthFetch(s)
    \/ \E s \in Sockets : AuthPush(s)
    \/ \E s \in Sockets : \E envelope \in EnvelopesOrder : MsgRelay(s, envelope)
    \/ \E s \in Sockets : MsgStore(s)
    \/ \E s \in Sockets : MsgEcho(s)
    \/ \E s \in Sockets : \E u \in UserIds : \E b \in BOOLEAN : Typing(s, u, b)
    \/ \E s \in Sockets : \E signal \in CallSignals : CallSignal(s, signal)

SpecSignal == InitSignal /\ [][NextSignal]_vars

\* ------------------------------------------------------------------------
\* Two clients that exchange public keys and encrypted messages
\* ------------------------------------------------------------------------
NextE2ee ==
    \/ \E e \in Engines : \E x \in Secrets : generate_identity(e, x)
    \/ \E e \in Engines : \E q \in Engines \ {e} : \E k \in PeerKeys :
           establish_session(e, q, k)
    \/ \E e \in Engines : \E q \in Engines \ {e} :
       \E m \in Messages : \E n \in Nonces : encrypt_for(e, q, m, n)
    \/ /\ wire.kind = "message"
       /\ \E f \in ReceivedFrames : decrypt_from(wire.peer, wire.sender, f)

SpecE2ee == InitCrypto /\ [][NextE2ee]_vars

\* a client that encrypts files and decrypts them again
NextFileKey ==
    \/ \E d \in Plaintexts : \E k \in FileKeys : \E n \in Nonces : encrypt_file(d, k, n)
    \/ \E f \in ReceivedFiles : \E k \in FileKeys : decrypt_file(f, k)

SpecFileKey == InitCrypto /\ [][NextFileKey]_vars

\* access keys verified against stored hashes
NextAccessKey ==
    \/ \E k \in KeyStrings : \E h \in StoredHashes(k) : StoreKeyHash(k, h)
    \/ \E k \in KeyStrings : VerifyAccessKey(k)
    \/ FoldPair
    \/ FoldReturn

SpecAccessKey == InitCrypto /\ [][NextAccessKey]_vars

NextAdmin ==
    \/ \E s \in Sockets : \E token \in Tokens : AuthValidate(s, token)
    \/ \E s \in Sockets : AuthRegister(s)
    \/ \E s \in Sockets : AuthFetch(s)
    \/ \E s \in Sockets : AuthPush(s)
    \/ \E key \in AdminKeys : \E uid \in LoginUserIds : create_user(key, uid)
    \/ \E key \in AdminKeys : \E uid \in LoginUserIds : delete_user(key, uid)
    \/ \E key \in AdminKeys : get_stats(key)

SpecAdmin == InitAdmin /\ [][NextAdmin]_vars

NextFiles ==
    \/ Tick
    \/ \E token \in Tokens : \E data \in FileBytes : \E f \in FileIds :
           upload_file(token, data, f)
    \/ \E token \in Tokens : \E f \in FileIds : download_file(token, f)
    \/ \E token \in Tokens : \E f \in FileIds : delete_file(token, f)

SpecFiles == InitFiles /\ [][NextFiles]_vars

\* ------------------------------------------------------------------------
\* Properties
\* ------------------------------------------------------------------------
Authed(s) == user_id[s] # None /\ device_id[s] # None

FrameAt(s, i, f) == chan[s][i].type = f.type /\ chan[s][i] = f

HasFrame(s, f) == \E i \in 1..Len(chan[s]) : FrameAt(s, i, f)

OthersUntouched(s) == \A o \in Sockets \ {s} : chan'[o] = chan[o]

\* C1: a message frame whose sender_id is not the socket's user is answered
\* with error INVALID_SENDER on that socket; the handler ends there: no row
\* is stored and no frame reaches any other socket.
C1_InvalidSender ==
    [][\A s \in Sockets : \A e \in Envelopes :
        (MsgRelay(s, e) /\ Authed(s) /\ e.sender_id # user_id[s]) =>
            /\ chan'[s] = Append(chan[s], ErrorFrame("INVALID_SENDER"))
            /\ OthersUntouched(s)
            /\ pending' = pending
            /\ pc'[s] = "idle"]_vars

C1_Witness ==
    \E s \in Sockets :
        /\ Authed(s)
        /\ pc[s] = "idle"
        /\ HasFrame(s, ErrorFrame("INVALID_SENDER"))
        /\ \E u \in UserIds \ {user_id[s]} : is_user_online(connections, u)
        /\ pending = <<>>

\* C7: an authenticate frame whose token validate_session rejected is
\* answered with error AUTH_FAILED; the socket keeps its state, the registry
\* and every other channel are unchanged, nothing is fetched, and the socket
\* reads the next frame; an authenticate frame whose token was accepted makes
\* the socket that session's (user, device) and registers it, also after an
\* earlier failure.
C7_AuthFailed ==
    [][\A s \in Sockets :
        (pc[s] = "auth_validated" /\ pc'[s] # "auth_validated") =>
            IF local[s].session.some
            THEN /\ user_id'[s] = local[s].session.val.user_id
                 /\ device_id'[s] = local[s].session.val.device_id
                 /\ is_user_online(connections', user_id'[s])
                 /\ \E i \in 1..Len(connections'[user_id'[s]]) :
                        connections'[user_id'[s]][i] =
                            Connection(user_id'[s], device_id'[s], s)
            ELSE /\ chan'[s] = Append(chan[s], ErrorFrame("AUTH_FAILED"))
                 /\ OthersUntouched(s)
                 /\ user_id'[s] = user_id[s]
                 /\ device_id'[s] = device_id[s]
                 /\ connections' = connections
                 /\ device_to_user' = device_to_user
                 /\ open'[s]
                 /\ pc'[s] = "idle"]_vars

\* the socket failed to authenticate, stayed Unauth, then authenticated
C7_Witness ==
    \E s \in Sockets :
        /\ Len(chan[s]) >= 2
        /\ FrameAt(s, 1, ErrorFrame("AUTH_FAILED"))
        /\ chan[s][2].type = "authenticated"
        /\ Authed(s)
        /\ \E i \in 1..Len(connections[user_id[s]]) :
               connections[user_id[s]][i].sender = s

\* C8: on a socket that is already Authed an authenticate frame changes
\* neither the socket's (user, device) nor the registry, and starts no
\* delivery of pending envelopes.
C8_AuthOnlyInUnauth ==
    [][\A s \in Sockets :
        (Authed(s) /\ AuthRegister(s)) =>
            /\ user_id'[s] = user_id[s]
            /\ device_id'[s] = device_id[s]
            /\ connections' = connections
            /\ device_to_user' = device_to_user
            /\ pc'[s] = "idle"]_vars

\* a row with this message_id is in the table
RowOf(rows, mid) == rows[CHOOSE i \in 1..Len(rows) : rows[i].message_id = mid]

InList(ids, mid) == \E i \in 1..Len(ids) : ids[i] = mid

\* the step is an acknowledgement of mid made by user uid: a DELETE of the
\* ack frame of a socket authenticated as uid, or POST /messages/ack with a
\* token of uid
AckBy(uid, mid) ==
    \/ \E s \in Sockets :
        /\ AckDelete(s)
        /\ user_id[s] = uid
        /\ Head(local[s].rest) = mid
    \/ \E token \in Tokens : \E ids \in AckLists :
        /\ acknowledge_messages(token, ids)
        /\ validate_session(token).some
        /\ validate_session(token).val.user_id = uid
        /\ InList(ids, mid)

\* C3: a pending envelope leaves the spool only by an acknowledgement of its
\* recipient (nothing expires in Spec, its clock stands still).
C3_RemovedOnlyByRecipientAck ==
    [][\A i \in 1..Len(pending) :
        ~HasMessageId(pending', pending[i].message_id) =>
            AckBy(pending[i].recipient_id, pending[i].message_id)]_vars

\* C4: the socket that sends M gets no frame at the direct delivery and only
\* ack{[M.message_id]} at the end, for every recipient_id; every other live
\* device of the sender gets message(M) at the echo.
OtherLiveDevice(s) ==
    \E o \in Sockets \ {s} :
        /\ open[o] /\ user_id[o] = user_id[s] /\ device_id[o] # device_id[s]
        /\ \E i \in 1..Len(connections[user_id[s]]) :
               connections[user_id[s]][i] = Connection(user_id[o], device_id[o], o)

C4_EchoNotToOrigin ==
    [][\A s \in Sockets :
        /\ \A e \in Envelopes :
            (MsgRelay(s, e) /\ Authed(s) /\ e.sender_id = user_id[s]
             /\ OtherLiveDevice(s)) =>
                chan'[s] = chan[s]
        /\ MsgEcho(s) =>
            /\ chan'[s] = Append(chan[s],
                                 AcknowledgedFrame(<<local[s].envelope.message_id>>))
            /\ \A o \in Sockets \ {s} :
                (open[o] /\ user_id[o] = user_id[s] /\ device_id[o] # device_id[s]
                 /\ \E i \in 1..Len(connections[user_id[s]]) :
                        connections[user_id[s]][i].sender = o) =>
                    /\ Len(chan'[o]) > Len(chan[o])
                    /\ chan'[o][Len(chan'[o])] = MessageFrame(local[s].envelope)]_vars

\* C9, scenario S2: s is registered once as (sender, d1) and r once as
\* (recipient, d2), and e goes from s's user to r's user with no target device
S2(s, r, e) ==
    /\ s # r
    /\ Authed(s) /\ Authed(r)
    /\ user_id[s] # user_id[r]
    /\ e.sender_id = user_id[s]
    /\ e.recipient_id = user_id[r]
    /\ e.recipient_device_id = None
    /\ user_id[s] \in DOMAIN connections
    /\ user_id[r] \in DOMAIN connections
    /\ connections[user_id[s]] = <<Connection(user_id[s], device_id[s], s)>>
    /\ connections[user_id[r]] = <<Connection(user_id[r], device_id[r], r)>>

\* C9: in scenario S2 the recipient's channel gets message(e) with every
\* field of e, the store leaves exactly one row for e.message_id (the row of
\* e when the id was free), the sender's channel then gets ack{[id]} and
\* nothing else, and the recipient's ack leaves no row with that id.
C9_LiveRelay ==
    [][\A s \in Sockets : \A r \in Sockets :
        /\ \A e \in Envelopes :
            (MsgRelay(s, e) /\ S2(s, r, e)) =>
                /\ chan'[r] = Append(chan[r], MessageFrame(e))
                /\ chan'[s] = chan[s]
        /\ (MsgStore(s) /\ S2(s, r, local[s].envelope)) =>
            LET e == local[s].envelope IN
            /\ Cardinality({i \in 1..Len(pending') :
                               pending'[i].message_id = e.message_id}) = 1
            /\ ~HasMessageId(pending, e.message_id) =>
                /\ Len(pending') = Len(pending) + 1
                /\ RowOf(pending', e.message_id).sender_id = e.sender_id
                /\ RowOf(pending', e.message_id).recipient_id = e.recipient_id
                /\ RowOf(pending', e.message_id).recipient_device_id = None
                /\ RowOf(pending', e.message_id).encrypted_content = e.encrypted_content
        /\ (MsgEcho(s) /\ S2(s, r, local[s].envelope)) =>
            /\ chan'[s] = Append(chan[s],
                                 AcknowledgedFrame(<<local[s].envelope.message_id>>))
            /\ chan'[r] = chan[r]
        /\ (AckDelete(r) /\ Authed(r)) =>
            ~HasMessageId(pending', Head(local[r].rest))]_vars

\* d2 got the envelope, d1 its ack, and after d2's ack the spool is empty
C9_Witness ==
    \E s \in Sockets : \E r \in Sockets : \E e \in Envelopes :
        /\ S2(s, r, e)
        /\ chan[s] = <<AuthenticatedFrame(user_id[s], device_id[s]),
                       AcknowledgedFrame(<<e.message_id>>)>>
        /\ chan[r] = <<AuthenticatedFrame(user_id[r], device_id[r]),
                       MessageFrame(e),
                       AcknowledgedFrame(<<e.message_id>>)>>
        /\ pending = <<>>

\* the connections of the registry, over all users
AllConnections ==
    {c \in [user_id : UserIds, device_id : DeviceIds, sender : Sockets] :
        /\ c.user_id \in DOMAIN connections
        /\ \E i \in 1..Len(connections[c.user_id]) : connections[c.user_id][i] = c}

EntriesOf(did) ==
    {<<u, i>> \in UserIds \X (1..Cardinality(Sockets) * (MaxAuth + MaxAuthLife + MaxAuthOrder)) :
        /\ u \in DOMAIN connections
        /\ i <= Len(connections[u])
        /\ connections[u][i].device_id = did}

\* C5: the registry holds at most one connection per device_id.
C5_OneEntryPerDevice ==
    \A did \in DeviceIds : Cardinality(EntriesOf(did)) <= 1

\* C6: the registry holds a connection with a socket's channel iff the socket
\* has authenticated and its close has not been seen.
C6_EntryIffAuthedOpen ==
    \A s \in Sockets :
        (\E c \in AllConnections : c.sender = s)
            <=> (Authed(s) /\ pc[s] \notin {"closing", "closed"})

\* position of the first message frame with this id, from this sender to this
\* recipient, in a channel (0 when there is none)
FirstMessage(s, mid, from, to) ==
    LET hits == {i \in 1..Len(chan[s]) :
                    /\ chan[s][i].type = "message"
                    /\ chan[s][i].envelope.message_id = mid
                    /\ chan[s][i].envelope.sender_id = from
                    /\ chan[s][i].envelope.recipient_id = to}
    IN IF hits = {} THEN 0 ELSE CHOOSE i \in hits : \A j \in hits : i <= j

\* positions of the acks of a message frame with this id in a channel
AcksOf(s, mid) ==
    {i \in 1..Len(chan[s]) :
        chan[s][i].type = "ack" /\ chan[s][i].message_ids = <<mid>>}

\* socket s sent a once and b once, a before b: a socket handles its frames
\* one after the other and ends each message frame with its ack
SentBefore(s, a, b) ==
    /\ a # b
    /\ Cardinality(AcksOf(s, a)) = 1
    /\ Cardinality(AcksOf(s, b)) = 1
    /\ \A i \in AcksOf(s, a) : \A j \in AcksOf(s, b) : i < j

\* C10: of two messages that one socket sent to one recipient, the one sent
\* later is never enqueued first on a channel of the recipient.
C10_SendOrder ==
    \A s \in Sockets : \A r \in Sockets \ {s} : \A a \in MessageIds : \A b \in MessageIds :
        (/\ Authed(s) /\ Authed(r) /\ user_id[s] # user_id[r]
         /\ SentBefore(s, a, b)
         /\ FirstMessage(r, a, user_id[s], user_id[r]) > 0
         /\ FirstMessage(r, b, user_id[s], user_id[r]) > 0)
        => FirstMessage(r, a, user_id[s], user_id[r])
               < FirstMessage(r, b, user_id[s], user_id[r])

RECURSIVE PushedFrames(_)
PushedFrames(rows) ==
    IF rows = <<>> THEN <<>>
    ELSE <<MessageFrame([message_id |-> Head(rows).message_id,
                         sender_id |-> Head(rows).sender_id,
                         recipient_id |-> Head(rows).recipient_id,
                         recipient_device_id |-> Head(rows).recipient_device_id,
                         encrypted_content |-> Head(rows).encrypted_content,
                         message_type |-> "Text",
                         timestamp |-> now])>> \o PushedFrames(Tail(rows))

\* C2: an accepted envelope is stored behind the rows already in the spool,
\* so the rows of one sender socket lie in its send order; the fetch of an
\* authenticate returns the rows for (user, device) in that order, and the
\* push enqueues them on the socket's channel in that order.
C2_OfflineOrder ==
    [][\A s \in Sockets :
        /\ (MsgStore(s) /\ ~HasMessageId(pending, local[s].envelope.message_id)) =>
            /\ Len(pending') = Len(pending) + 1
            /\ SubSeq(pending', 1, Len(pending)) = pending
            /\ pending'[Len(pending')].message_id = local[s].envelope.message_id
            /\ pending'[Len(pending')].recipient_id = local[s].envelope.recipient_id
        /\ AuthFetch(s) =>
            LET Mine(row) == /\ row.recipient_id = user_id[s]
                             /\ row.recipient_device_id \in {None, device_id[s]}
            IN local'[s].pending = SelectSeq(pending, Mine)
        /\ AuthPush(s) =>
            chan'[s] = chan[s] \o PushedFrames(local[s].pending)]_vars

\* the recipient was offline while m1 then m2 were sent a second apart, and
\* got both, m1 first, when it authenticated
C2_Witness ==
    \E s \in Sockets : \E r \in Sockets \ {s} :
        /\ Authed(s) /\ Authed(r) /\ user_id[s] # user_id[r]
        /\ SentBefore(s, "m1", "m2")
        /\ Len(pending) = 2
        /\ pending[1].message_id = "m1" /\ pending[2].message_id = "m2"
        /\ pending[1].created_at.t < pending[2].created_at.t
        /\ Len(chan[r]) = 3
        /\ chan[r][1].type = "authenticated"
        /\ FirstMessage(r, "m1", user_id[s], user_id[r]) = 2
        /\ FirstMessage(r, "m2", user_id[s], user_id[r]) = 3
        /\ chan[r][2].envelope.timestamp > 0
        /\ chan[r][3].envelope.timestamp > 0

\* the spool holds the envelope of a message frame
Stored(envelope) ==
    \E i \in 1..Len(pending) :
        /\ pending[i].message_id = envelope.message_id
        /\ pending[i].recipient_id = envelope.recipient_id
        /\ pending[i].recipient_device_id = envelope.recipient_device_id
        /\ pending[i].encrypted_content = envelope.encrypted_content

\* C11: when the server enqueues ack{[id]} in answer to a message frame, the
\* spool holds an envelope with that id and the frame's recipient and
\* ciphertext.
C11_AckImpliesStored ==
    [][\A s \in Sockets :
        (/\ MsgEcho(s)
         /\ Len(chan'[s]) > Len(chan[s])
         /\ chan'[s][Len(chan'[s])].type = "ack"
         /\ chan'[s][Len(chan'[s])].message_ids = <<local[s].envelope.message_id>>)
            => Stored(local[s].envelope)]_vars

AllTokens == Tokens \cup NewTokens

\* the token has a session row of this user, valid or not
IssuedTo(token, uid) ==
    /\ hash_access_key(token) \in DOMAIN sessions
    /\ sessions[hash_access_key(token)].user_id = uid

\* C12: once delete_user(u) has completed, validate_session rejects every
\* token that was issued to u, and it accepts no token of a user that has no
\* row in users.
C12_DeletedUserTokensRejected ==
    /\ [](\A token \in AllTokens :
            validate_session(token).some =>
                validate_session(token).val.user_id \in DOMAIN users)
    /\ [][\A uid \in UserIds :
            (delete_user("master", uid) /\ response'.status = "Ok") =>
                \A token \in AllTokens :
                    IssuedTo(token, uid) => ~(validate_session(token).some)']_vars

\* u1 was deleted after a socket had authenticated with one of its tokens
C12_Witness ==
    /\ response.req = "delete_user" /\ response.status = "Ok" /\ response.arg = "u1"
    /\ "u1" \notin DOMAIN users
    /\ ~validate_session("t1").some /\ ~validate_session("t2").some
    /\ \E s \in Sockets : user_id[s] = "u1"

\* the sockets whose channel is registered for a user
SocketsOf(conns, uid) ==
    IF uid \in DOMAIN conns
    THEN {conns[uid][i].sender : i \in 1..Len(conns[uid])}
    ELSE {}

\* C13: when delete_user(u) completes, every socket that was live for u has
\* got error ACCOUNT_DELETED and is closed: the registry holds no connection
\* of u any more.
C13_DeletedUserDisconnected ==
    [][\A uid \in UserIds :
        (delete_user("master", uid) /\ response'.status = "Ok") =>
            /\ \A s \in SocketsOf(connections, uid) :
                   /\ Len(chan'[s]) > 0
                   /\ chan'[s][Len(chan'[s])] = ErrorFrame("ACCOUNT_DELETED")
            /\ ~is_user_online(connections', uid)
            /\ SocketsOf(connections', uid) = {}]_vars

\* C14: a refresh with a token T that validates answers Ok with a new token
\* T'; from then on T is rejected and T' validates to the user and device of
\* T.  A refresh with a token that does not validate answers Unauthorized and
\* leaves the sessions as they were.
C14_RefreshRotates ==
    [][\A token \in AllTokens : \A t \in NewTokens :
        refresh_token(token, t) =>
            IF validate_session(token).some
            THEN /\ response'.status = "Ok"
                 /\ response'.out_token = t
                 /\ ~(validate_session(token).some)'
                 /\ (validate_session(t).some)'
                 /\ (validate_session(t).val.user_id)'
                        = validate_session(token).val.user_id
                 /\ (validate_session(t).val.device_id)'
                        = validate_session(token).val.device_id
            ELSE /\ response'.status = "Unauthorized"
                 /\ sessions' = sessions]_vars

\* t1 of (u1, d1) was refreshed to n1
C14_Witness ==
    /\ response.req = "refresh_token" /\ response.status = "Ok"
    /\ response.token = "t1" /\ response.out_token = "n1"
    /\ ~validate_session("t1").some
    /\ validate_session("n1").some
    /\ validate_session("n1").val.user_id = "u1"
    /\ validate_session("n1").val.device_id = "d1"

\* a session row for hash(token) exists, is valid, and the clock is strictly
\* before its expires_at
SessionLive(token) ==
    /\ hash_access_key(token) \in DOMAIN sessions
    /\ sessions[hash_access_key(token)].is_valid
    /\ now < sessions[hash_access_key(token)].expires_at.t

\* C15: validate_session(token) returns the session iff its row exists, is
\* valid and now < expires_at; the user and the device of an accepted session
\* exist.
C15_ValidateIffLive ==
    [][\A s \in Sockets : \A token \in Tokens :
        AuthValidate(s, token) =>
            /\ local'[s].session.some <=> SessionLive(token)
            /\ local'[s].session.some =>
                   /\ local'[s].session.val.user_id \in DOMAIN users
                   /\ local'[s].session.val.device_id \in DOMAIN devices]_vars

\* the user exists, is active, and the access key hashes to its key_hash
CredentialsGood(uid, access_key) ==
    /\ uid \in DOMAIN users
    /\ users[uid].is_active
    /\ users[uid].key_hash = hash_access_key(access_key)

\* C16: a login succeeds iff the user exists, is active and the key hashes to
\* key_hash.  A failed login answers InvalidCredentials and creates neither a
\* device nor a session; a successful one creates one device and one session,
\* and its token validates to the user and the new device, expiring later
\* than now.
C16_Login ==
    [][\A uid \in LoginUserIds : \A key \in AccessKeys :
       \A d \in NewDevices : \A t \in NewTokens :
        login(uid, key, d, t) =>
            IF CredentialsGood(uid, key)
            THEN /\ response'.status = "Ok"
                 /\ d \notin DOMAIN devices
                 /\ DOMAIN devices' = DOMAIN devices \cup {response'.out_device}
                 /\ devices'[response'.out_device].user_id = uid
                 /\ \A x \in DOMAIN devices : devices'[x] = devices[x]
                 /\ hash_access_key(response'.out_token) \notin DOMAIN sessions
                 /\ DOMAIN sessions'
                        = DOMAIN sessions \cup {hash_access_key(response'.out_token)}
                 /\ \A h \in DOMAIN sessions : sessions'[h] = sessions[h]
                 /\ (validate_session(response.out_token).some)'
                 /\ (validate_session(response.out_token).val.user_id)' = uid
                 /\ (validate_session(response.out_token).val.device_id)'
                        = response'.out_device
                 /\ sessions'[hash_access_key(response'.out_token)].expires_at.t > now
            ELSE /\ response'.status = "InvalidCredentials"
                 /\ devices' = devices
                 /\ sessions' = sessions]_vars

\* u1 logged in with its access key and got a token for a new device
C16_Witness ==
    /\ response.req = "login" /\ response.status = "Ok" /\ response.arg = "u1"
    /\ response.out_device \in NewDevices
    /\ response.out_device \in DOMAIN devices
    /\ devices[response.out_device].user_id = "u1"
    /\ validate_session(response.out_token).some
    /\ validate_session(response.out_token).val.user_id = "u1"
    /\ validate_session(response.out_token).val.device_id = response.out_device

\* C17: after a logout with bearer token T that answered Ok, validate_session
\* rejects T.
C17_LogoutDestroysSession ==
    [][\A token \in AllTokens :
        (logout(token) /\ response'.status = "Ok") =>
            ~(validate_session(token).some)']_vars

DeviceStateUnchanged ==
    /\ devices' = devices
    /\ sessions' = sessions
    /\ connections' = connections
    /\ device_to_user' = device_to_user

C19_GetPendingExact ==
    [][\A s \in Sockets :
        AuthFetch(s) =>
            LET Due(row) ==
                    /\ row.recipient_id = local[s].session.val.user_id
                    /\ row.recipient_device_id \in {None, local[s].session.val.device_id}
                    /\ row.expires_at.t > now
            IN /\ local'[s].pending = SelectSeq(pending, Due)
               /\ \A i \in 1..Len(local'[s].pending) : \A j \in 1..Len(local'[s].pending) :
                      i < j => local'[s].pending[i].created_at.t
                                   <= local'[s].pending[j].created_at.t]_vars

\* the device ids get_user_devices lists for a user
DevSet(conns, uid) ==
    {get_user_devices(conns, uid)[i] : i \in 1..Len(get_user_devices(conns, uid))}

\* C20: with no device id connected twice at a time, a register adds the
\* device to the devices get_user_devices lists for its user and an
\* unregister takes it out again, nothing else changes; is_user_online(u) is
\* true iff that list is not empty, and online_user_count is the number of
\* such users.
C20_Presence ==
    /\ [](/\ \A u \in UserIds :
               /\ is_user_online(connections, u) <=> DevSet(connections, u) # {}
               /\ Len(get_user_devices(connections, u))
                      = Cardinality(DevSet(connections, u))
          /\ online_user_count(connections)
                 = Cardinality({u \in UserIds : DevSet(connections, u) # {}}))
    /\ [][/\ \A uid \in UserIds : \A did \in DeviceIds : \A s \in Sockets :
               register(uid, did, s) =>
                   /\ DevSet(connections', uid) = DevSet(connections, uid) \cup {did}
                   /\ \A v \in UserIds \ {uid} :
                          DevSet(connections', v) = DevSet(connections, v)
          /\ \A did \in DeviceIds :
               unregister(did) =>
                   \A v \in UserIds :
                       DevSet(connections', v) = DevSet(connections, v) \ {did}]_vars

\* three devices were registered and two unregistered: u1's last device is
\* gone and u1 is offline, u2 is online with d3
C20_Witness ==
    /\ frames["reg"] = 3 /\ frames["unreg"] = 2
    /\ ~is_user_online(connections, "u1")
    /\ is_user_online(connections, "u2")
    /\ get_user_devices(connections, "u2") = <<"d3">>
    /\ online_user_count(connections) = 1

\* C21: a second run of cleanup_expired right after a run, with no operation
\* in between and the clock where it was, leaves pending_messages, files and
\* sessions as the first run left them and reports zero messages and zero
\* files removed.
C21_ReaperIdempotent ==
    [][cleanup_expired =>
        /\ cleanup_pending(pending', now') = pending'
        /\ cleanup_files(files', now') = files'
        /\ cleanup_sessions(sessions', now') = sessions'
        /\ Reaped(Len(pending') - Len(cleanup_pending(pending', now')),
                  Cardinality(DOMAIN files')
                      - Cardinality(DOMAIN cleanup_files(files', now')))
               = Reaped(0, 0)]_vars

\* a run removed an envelope, a file row and the sessions that were expired
\* or invalid, and kept a session
C21_Witness ==
    /\ reaped.some
    /\ reaped.val.messages = 1
    /\ reaped.val.files = 1
    /\ hash_access_key("tOld") \notin DOMAIN sessions
    /\ hash_access_key("tInv") \notin DOMAIN sessions
    /\ hash_access_key("t2") \in DOMAIN sessions

\* the instant expires_at lies at or before the clock
InstantPassed(row, t) == row.expires_at.t <= t

\* C22: a run of cleanup_expired deletes exactly the pending messages and
\* file rows whose expires_at instant is at or before now and the sessions
\* that are expired or have is_valid = false; every other row is unchanged
\* and no row whose expiry instant has passed is left.
C22_ReaperExact ==
    [][cleanup_expired =>
        /\ LET Keep(row) == ~InstantPassed(row, now) IN
           pending' = SelectSeq(pending, Keep)
        /\ files' = [f \in {k \in DOMAIN files : ~InstantPassed(files[k], now)} |->
                        files[f]]
        /\ sessions' = [h \in {k \in DOMAIN sessions :
                                  /\ ~InstantPassed(sessions[k], now)
                                  /\ sessions[k].is_valid} |-> sessions[h]]]_vars

\* the request is made by an authenticated user on a file that
\* get_file_metadata returns
OnLiveFile(token, f) == AuthUser(token).some /\ get_file_metadata(files, f).some

\* C23: DELETE /files/{id} by an authenticated user who is not the uploader
\* is answered Forbidden and leaves the files row and the stored blob as they
\* were, so that a download by any authenticated user right after it is
\* served; a served download returns the stored bytes and adds exactly 1 to
\* the download_count of that row, and changes nothing else.
C23_OnlyUploaderDeletes ==
    [][\A token \in Tokens : \A f \in FileIds :
        /\ (/\ delete_file(token, f)
            /\ OnLiveFile(token, f)
            /\ files[f].uploader_id # AuthUser(token).val.user_id) =>
                /\ response'.status = "Forbidden"
                /\ files' = files
                /\ disk' = disk
                /\ f \in DOMAIN disk =>
                       \A t2 \in Tokens :
                           AuthUser(t2).some => (download_file_status(t2, f) = "Ok")'
        /\ (/\ download_file(token, f)
            /\ OnLiveFile(token, f)
            /\ f \in DOMAIN disk) =>
                /\ response'.status = "Ok"
                /\ response'.body = [bytes |-> disk[f]]
                /\ files' = [files EXCEPT ![f].download_count = @ + 1]
                /\ disk' = disk]_vars

\* a file that was downloaded once has just been refused to a user who did
\* not upload it, and is still there
C23_Witness ==
    /\ response.req = "delete_file"
    /\ response.status = "Forbidden"
    /\ response.arg \in DOMAIN files
    /\ response.arg \in DOMAIN disk
    /\ files[response.arg].download_count = 1
    /\ AuthUser(response.token).some
    /\ AuthUser(response.token).val.user_id # files[response.arg].uploader_id

\* every state the admin routes may change or answer from is as it was
AdminNoEffect ==
    /\ users' = users
    /\ devices' = devices
    /\ sessions' = sessions
    /\ pending' = pending
    /\ files' = files
    /\ connections' = connections
    /\ chan' = chan

\* C24: create user, delete user and get stats called with an admin_key that
\* is not the configured master key answer Forbidden and have no effect: no
\* users row is created or deleted and no frame is enqueued on any socket.
C24_AdminKeyRequired ==
    [][\A key \in AdminKeys \ {MasterKey} :
        /\ \A uid \in LoginUserIds :
            (create_user(key, uid) \/ delete_user(key, uid)) =>
                /\ response'.status = "Forbidden"
                /\ response'.body = NoBody
                /\ AdminNoEffect
        /\ get_stats(key) =>
                /\ response'.status = "Forbidden"
                /\ response'.body = NoBody
                /\ AdminNoEffect]_vars

\* the delete of a connected user was refused, while a create was served
C24_Witness ==
    /\ response.req = "delete_user"
    /\ response.status = "Forbidden"
    /\ response.arg \in DOMAIN users
    /\ is_user_online(connections, response.arg)
    /\ \A s \in Sockets : ~HasFrame(s, ErrorFrame("ACCOUNT_DELETED"))
    /\ "u9" \in DOMAIN users

\* another socket than s is open and authenticated as user u on another
\* device than that of s, one that was not removed: u still has a live
\* device when s has closed
LiveBeside(s, u) ==
    \E o \in Sockets \ {s} :
        /\ open[o] /\ pc[o] \notin {"closing", "closed"}
        /\ Authed(o) /\ user_id[o] = u /\ device_id[o] # device_id[s]
        /\ device_id[o] \in DOMAIN devices

\* socket o is the open socket of a registered device of another user than u
OnlineOther(o, u) ==
    /\ open[o] /\ Authed(o) /\ user_id[o] # u
    /\ \E c \in AllConnections : c.sender = o

\* C25: when an authenticated socket of user u closes, its device is
\* unregistered; then, if u has no live device left, user_offline{u} is
\* enqueued to every remaining online user, and if u still has a live device,
\* no user_offline{u} is sent and u stays online.
C25_CloseOffline ==
    [][\A s \in Sockets :
        /\ (CloseUnregister(s) /\ Authed(s)) =>
               device_id[s] \notin DOMAIN device_to_user'
        /\ CloseBroadcast(s) =>
               IF LiveBeside(s, user_id[s])
               THEN /\ chan' = chan
                    /\ is_user_online(connections', user_id[s])
               ELSE \A o \in Sockets \ {s} :
                        OnlineOther(o, user_id[s]) =>
                            chan'[o] = Append(chan[o], UserOfflineFrame(user_id[s]))]_vars

\* the number of connections of user u that send on the open socket o
EntriesTo(u, o) ==
    IF u \in DOMAIN connections /\ open[o]
    THEN Cardinality({i \in 1..Len(connections[u]) : connections[u][i].sender = o})
    ELSE 0

\* the step enqueued n copies of frame f on socket o and nothing else
Forwarded(o, f, n) ==
    /\ Len(chan'[o]) = Len(chan[o]) + n
    /\ SubSeq(chan'[o], 1, Len(chan[o])) = chan[o]
    /\ \A i \in (Len(chan[o]) + 1)..Len(chan'[o]) :
           chan'[o][i].type = f.type /\ chan'[o][i] = f

\* C26: a call_signal frame is forwarded, as it came, to the connections of
\* signal.recipient_id when the socket is authenticated and signal.sender_id
\* is its user, and to nobody otherwise; a typing frame of an authenticated
\* socket is forwarded to the connections of its recipient_id carrying the
\* socket's user id; on an unauthenticated socket neither enqueues a frame;
\* neither changes pending_messages.
C26_SignalingNotStored ==
    [][\A s \in Sockets :
        /\ \A signal \in CallSignals :
            CallSignal(s, signal) =>
                /\ pending' = pending
                /\ IF Authed(s) /\ signal.sender_id = user_id[s]
                   THEN \A o \in Sockets :
                            Forwarded(o, CallSignalFrame(signal),
                                      EntriesTo(signal.recipient_id, o))
                   ELSE chan' = chan
        /\ \A u \in UserIds : \A b \in BOOLEAN :
            Typing(s, u, b) =>
                /\ pending' = pending
                /\ IF Authed(s)
                   THEN \A o \in Sockets :
                            Forwarded(o, TypingFrame(user_id[s], b), EntriesTo(u, o))
                   ELSE chan' = chan]_vars

\* a socket got a call_signal and a typing frame of the other user while an
\* envelope is in the spool
C26_Witness ==
    \E r \in Sockets : \E signal \in CallSignals : \E b \in BOOLEAN :
        /\ Authed(r)
        /\ signal.recipient_id = user_id[r]
        /\ signal.sender_id # user_id[r]
        /\ HasFrame(r, CallSignalFrame(signal))
        /\ HasFrame(r, TypingFrame(signal.sender_id, b))
        /\ pending # <<>>

\* ------------------------------------------------------------------------
\* Client crypto
\* ------------------------------------------------------------------------
\* the session key that a holds for b was derived from a's current secret and
\* b's current public key
EstablishedWith(a, b) ==
    /\ identity[a].some /\ identity[b].some
    /\ b \in DOMAIN peer_sessions[a]
    /\ peer_sessions[a][b].shared_secret =
           Sha256(diffie_hellman(identity[a].val, PublicKey(identity[b].val)))

\* the last call was B's decrypt_from(A, ..) of what arrived for the frame
\* that A encrypted for B, both sessions being established with the other's
\* public key and A's not replaced since
DecryptedByPeer ==
    /\ outcome.op = "decrypt_from"
    /\ wire.kind = "message"
    /\ outcome.engine = wire.peer /\ outcome.peer = wire.sender
    /\ EstablishedWith(wire.sender, wire.peer)
    /\ EstablishedWith(wire.peer, wire.sender)
    /\ wire.key = peer_sessions[wire.sender][wire.peer].shared_secret

\* C27: when A and B have each established a session with the other's public
\* key, both hold the same session key, B's decrypt_from of the frame that A's
\* encrypt_for produced returns the plaintext m, and B's decrypt_from of that
\* frame with any one character changed, or cut short, fails.
C27_E2eeRoundTrip ==
    DecryptedByPeer =>
        /\ peer_sessions[wire.peer][wire.sender].shared_secret = wire.key
        /\ IF outcome.intact THEN outcome.result = Ok(wire.plaintext)
           ELSE ~outcome.result.ok

C27_Witness ==
    /\ DecryptedByPeer
    /\ outcome.intact
    /\ wire.plaintext = <<72, 105>>
    /\ outcome.result = Ok(<<72, 105>>)

\* the tampered half of C27 happens: an altered frame was refused by the tag
E2eeTamperRefused ==
    /\ DecryptedByPeer
    /\ ~outcome.intact
    /\ outcome.result = Err("Decryption failed")


\* the last call was decrypt_file of the encrypted file as encrypt_file
\* returned it
DecryptedFile ==
    /\ outcome.op = "decrypt_file"
    /\ wire.kind = "file"
    /\ outcome.intact

\* C28: the frame that encrypt_file(D, K) returns is 12 + len(D) + 16 bytes
\* long; decrypt_file of that frame with K returns D, and decrypt_file of
\* that frame with any other key fails.
C28_FileRoundTrip ==
    /\ wire.kind = "file" =>
           Len(wire.frame) = NonceLen + Len(wire.data) + TagLen
    /\ DecryptedFile =>
           IF outcome.key = wire.key THEN outcome.result = Ok(wire.data)
           ELSE ~outcome.result.ok

C28_Witness ==
    /\ DecryptedFile
    /\ outcome.key = wire.key
    /\ wire.data = <<72, 105>>
    /\ Len(wire.frame) = 30
    /\ outcome.result = Ok(<<72, 105>>)

\* the wrong-key half of C28 happens: a well-formed other key was refused
FileWrongKeyRefused ==
    /\ DecryptedFile
    /\ outcome.key # wire.key
    /\ outcome.result = Err("Decryption failed")


\* the last call was verify_access_key(outcome.key, wire.hash)
Verified ==
    outcome.op = "verify_access_key" /\ outcome.done /\ wire.kind = "key_hash"

\* whatever the position of the first mismatch, every pair was folded
FoldIsExhaustive ==
    (Verified /\ Len(wire.hash) = Len(hash_access_key_bytes(outcome.key))) =>
        outcome.folded = Len(wire.hash)

\* C29: verify_access_key(k, hash_access_key(k)) is true;
\* verify_access_key(k', hash_access_key(k)) is false for every other key k';
\* it is false for a stored hash of another length; and it is false for a
\* stored hash that differs from the computed one in one character, whatever
\* the position of that character.
C29_AccessKeyVerification ==
    Verified =>
        /\ (wire.variant = "hash" /\ outcome.key = wire.of) => outcome.result
        /\ (wire.variant = "hash" /\ outcome.key # wire.of) => ~outcome.result
        /\ Len(wire.hash) # Len(hash_access_key_bytes(outcome.key)) => ~outcome.result
        /\ (wire.variant = "changed" /\ outcome.key = wire.of) => ~outcome.result

C29_Witness ==
    /\ Verified
    /\ wire.variant = "changed" /\ wire.at = 2 * KeyLen
    /\ outcome.key = wire.of
    /\ outcome.key = <<107, 49>>
    /\ ~outcome.result

\* the other cases of C29 happen
AccessKeyAccepted ==
    Verified /\ wire.variant = "hash" /\ outcome.key = wire.of /\ outcome.result

AccessKeyShorterRefused ==
    Verified /\ wire.variant = "shorter" /\ outcome.key = wire.of /\ ~outcome.result


\* ------------------------------------------------------------------------
\* The spool's UNIQUE(message_id)
\* ------------------------------------------------------------------------
UniqueMessageIds ==
    \A i, j \in 1..Len(pending) :
        pending[i].message_id = pending[j].message_id => i = j

\* a store of an envelope whose message_id is already in the spool
DuplicateStore(s) ==
    MsgStore(s) /\ HasMessageId(pending, local[s].envelope.message_id)

\* C30: the spool never holds two rows with the same message_id, and the
\* store of an envelope whose message_id is already there fails and leaves
\* every row, the existing one included, as it was.
C30_MessageIdUnique ==
    /\ []UniqueMessageIds
    /\ [][\A s \in Sockets :
             DuplicateStore(s) =>
                 /\ ~StoreSucceeds(local[s].envelope)
                 /\ pending' = pending]_vars

\* a store has run for an envelope whose message_id was taken by a row of
\* another sender, written at an earlier instant; that row is still the one
C30_Witness ==
    \E s \in Sockets : \E i \in 1..Len(pending) :
        /\ pc[s] = "msg_echo"
        /\ pending[i].message_id = local[s].envelope.message_id
        /\ pending[i].sender_id # local[s].envelope.sender_id
        /\ pending[i].created_at # SqlDatetime(now)


\* ------------------------------------------------------------------------
\* The registry under concurrent calls
\* ------------------------------------------------------------------------
\* thread t has returned from register(u, d2, s) and thread r from
\* unregister(d1), d1 another device of the same user
RegisteredBesideUnregister(t, r) ==
    /\ calls[t].op = "register" /\ Returned(t)
    /\ calls[r].op = "unregister" /\ Returned(r)
    /\ calls[r].user_id = calls[t].user_id
    /\ calls[r].device_id # calls[t].device_id

\* C31: once register(u, d2) and unregister(d1) of another device d1 of u
\* have both returned, in whatever order their map operations ran, u is
\* online and send_to_device(d2, msg) enqueues msg on the channel that was
\* registered for d2.
C31_RegistryConcurrent ==
    \A t, r \in Threads :
        RegisteredBesideUnregister(t, r) =>
            /\ is_user_online(connections, calls[t].user_id)
            /\ send_to_device(chan, connections, device_to_user, calls[t].device_id,
                              ErrorFrame("probe"))
                   = Send(chan, calls[t].sender, ErrorFrame("probe"))


\* ------------------------------------------------------------------------
\* Registry entries of closed sockets
\* ------------------------------------------------------------------------
\* the connections whose sender is the tx of socket s
EntriesOfSocket(s) ==
    UNION {{connections[u][i] : i \in {j \in 1..Len(connections[u]) :
                                          connections[u][j].sender = s}} :
           u \in DOMAIN connections}

\* C32: once a socket has closed and its cleanup has run, connections holds
\* no entry whose sender is that socket's channel, and device_to_user no
\* entry that leads to one, whatever frames the socket sent before.
C32_NoLeakedEntries ==
    \A s \in Sockets :
        pc[s] = "closed" =>
            /\ EntriesOfSocket(s) = {}
            /\ \A d \in DOMAIN device_to_user :
                   \A c \in EntriesOfSocket(s) :
                       ~(device_to_user[d] = c.user_id /\ c.device_id = d)


\* ------------------------------------------------------------------------
\* A device that reconnects on a new socket
\* ------------------------------------------------------------------------
\* socket o authenticated with the device of the open socket s after s did:
\* both are registered for that device, o behind s
Reconnected(s, o) ==
    /\ s # o /\ open[s] /\ open[o]
    /\ Authed(s) /\ Authed(o)
    /\ user_id[o] = user_id[s] /\ device_id[o] = device_id[s]
    /\ device_id[s] \in DOMAIN devices
    /\ user_id[s] \in DOMAIN connections
    /\ \E i, j \in 1..Len(connections[user_id[s]]) :
           /\ i < j
           /\ connections[user_id[s]][i] = Connection(user_id[s], device_id[s], s)
           /\ connections[user_id[s]][j] = Connection(user_id[s], device_id[s], o)

\* C33: when a device has authenticated on a new socket while an older socket
\* of the same device_id is open, the close of the older socket leaves the
\* new socket registered: frames for the device still reach the new socket,
\* the user stays online, and no user_offline is broadcast for the user.
C33_ReconnectSafe ==
    [][\A s \in Sockets : \A o \in Sockets :
        /\ (CloseUnregister(s) /\ Reconnected(s, o)) =>
               /\ is_user_online(connections', user_id[s])
               /\ send_to_device(chan, connections', device_to_user', device_id[s],
                                 ErrorFrame("probe"))
                      = Send(chan, o, ErrorFrame("probe"))
        /\ (/\ CloseBroadcast(s)
            /\ s # o /\ open[o] /\ Authed(o) /\ pc[o] \notin {"closing", "closed"}
            /\ user_id[o] = user_id[s] /\ device_id[o] = device_id[s]
            /\ device_id[s] \in DOMAIN devices) =>
               chan' = chan]_vars


\* ------------------------------------------------------------------------
\* Where a message frame goes
\* ------------------------------------------------------------------------
\* socket o holds a registry entry of user u
RegisteredFor(o, u) == \E c \in AllConnections : c.sender = o /\ c.user_id = u

\* C34: the message frames enqueued for an accepted envelope M, by the direct
\* delivery and by the echo to the sender's other devices, go only to sockets
\* registered for M.recipient_id or for the sender, whatever
\* recipient_device_id the sender chose: a socket registered only for a third
\* user receives none.
C34_RoutingConfined ==
    [][\A s \in Sockets : \A envelope \in Envelopes :
        ((MsgRelay(s, envelope) /\ Authed(s) /\ SenderVerified(s, envelope))
         \/ (MsgEcho(s) /\ local[s].envelope = envelope)) =>
            \A o \in Sockets \ {s} :
                chan'[o] # chan[o] =>
                    \/ RegisteredFor(o, envelope.recipient_id)
                    \/ RegisteredFor(o, envelope.sender_id)]_vars


\* ------------------------------------------------------------------------
\* Sockets in the Unauth state
\* ------------------------------------------------------------------------
\* a step of the task of socket s, which is Unauth, on a frame that is not a
\* successful authenticate
UnauthStep(s) ==
    /\ user_id[s] = None
    /\ \/ \E envelope \in Envelopes : MsgRelay(s, envelope)
       \/ \E ids \in AckLists : AckRecv(s, ids)
       \/ AckDelete(s)
       \/ AckReply(s)
       \/ AuthRegister(s) /\ ~local[s].session.some

\* C35: a socket in the Unauth state, on every frame other than a successful
\* authenticate, changes neither the spool nor the registry and enqueues no
\* frame on another socket.
C35_UnauthNoEffect ==
    [][\A s \in Sockets :
        UnauthStep(s) =>
            /\ pending' = pending
            /\ connections' = connections
            /\ device_to_user' = device_to_user
            /\ \A o \in Sockets \ {s} : chan'[o] = chan[o]]_vars


\* ------------------------------------------------------------------------
\* Sockets that stay open while their session is revoked
\* ------------------------------------------------------------------------
InitRevoke ==
    /\ InitState
    /\ limit = [auth |-> MaxAuthRevoke, msg |-> MaxMsgRevoke, ack |-> 0, close |-> 0,
                remove |-> MaxRemoveRevoke, http |-> MaxHttpRevoke, reg |-> 0, unreg |-> 0,
                ticks |-> 0, reap |-> 0, file |-> 0, signal |-> MaxSignalRevoke]

\* u1 is connected on d2 and u2 on d3; d1 is the device u1 makes requests from
TokensRevoke == {"t2", "t3"}
EnvelopesRevoke == {e \in EnvelopesOrder : e.message_id = "m1"}

NextRevoke ==
    \/ \E s \in Sockets : \E token \in TokensRevoke : AuthValidate(s, token)
    \/ \E s \in Sockets : AuthRegister(s)
    \/ \E s \in Sockets : AuthFetch(s)
    \/ \E s \in Sockets : AuthPush(s)
    \/ \E s \in Sockets : \E envelope \in EnvelopesRevoke : MsgRelay(s, envelope)
    \/ \E s \in Sockets : MsgStore(s)
    \/ \E s \in Sockets : MsgEcho(s)
    \/ \E s \in Sockets : \E u \in UserIds : Typing(s, u, TRUE)
    \/ \E s \in Sockets : Presence(s, "Away")
    \/ \E s \in Sockets : \E signal \in CallSignals : CallSignal(s, signal)
    \/ \E did \in DOMAIN devices : remove_device("t1", did)
    \/ \E token \in TokensRevoke : refresh_token(token, "n1")
    \/ \E key \in AdminKeys : delete_user(key, "u1")
    \/ \E key \in AdminKeys : revoke_key(key, "u1")

SpecRevoke == InitRevoke /\ [][NextRevoke]_vars

\* no row of sessions is valid for the user and device of socket s, or the
\* device or the user is gone, or the user is deactivated
Revoked(s) ==
    /\ user_id[s] # None
    /\ device_id[s] # None
    /\ \/ device_id[s] \notin DOMAIN devices
       \/ user_id[s] \notin DOMAIN users
       \/ ~users[user_id[s]].is_active
       \/ \A h \in DOMAIN sessions :
             ~(/\ sessions[h].user_id = user_id[s]
               /\ sessions[h].device_id = device_id[s]
               /\ sessions[h].is_valid)

\* the task of socket s handles a message, typing, presence or call_signal
\* frame
RelayStep(s) ==
    \/ \E envelope \in Envelopes : MsgRelay(s, envelope)
    \/ \E u \in UserIds : \E b \in BOOLEAN : Typing(s, u, b)
    \/ \E status \in PresenceStatuses : Presence(s, status)
    \/ \E signal \in CallSignals : CallSignal(s, signal)

\* C36: once the session a socket authenticated with has been revoked (its
\* device removed, its user deleted or deactivated), no message, typing,
\* presence or call_signal frame read from that socket is enqueued on a
\* socket of another user.
C36_RevocationReachesSockets ==
    [][\A s \in Sockets :
        Revoked(s) /\ RelayStep(s) =>
            \A o \in Sockets :
                user_id[o] # user_id[s] => chan'[o] = chan[o]]_vars


\* ------------------------------------------------------------------------
\* POST /api/v1/auth/refresh, one await after the other. Each request runs as
\* a task of its own; between two awaits of one request another request may
\* run its own statements on the same database.
\* ------------------------------------------------------------------------
InitRefresh ==
    /\ InitState
    /\ limit = [auth |-> 0, msg |-> 0, ack |-> 0, close |-> 0, remove |-> 0,
                http |-> MaxHttpRefresh, reg |-> 0, unreg |-> 0, ticks |-> 0,
                reap |-> 0, file |-> 0, signal |-> 0]

\* validate_session(&req.token).await?.ok_or(AppError::Unauthorized)?
RefreshValidate(t, token) ==
    /\ Returned(t)
    /\ Accept("http")
    /\ LET session == validate_session(token) IN
       calls' = [calls EXCEPT ![t] =
           IF session.some
           THEN [op |-> "refresh_token", pc |-> "invalidate", token |-> token,
                 session |-> session.val, status |-> "none", out_token |-> None]
           ELSE [op |-> "refresh_token", pc |-> "done", token |-> token,
                 session |-> Idle, status |-> "Unauthorized", out_token |-> None]]
    /\ UNCHANGED <<now, limit, fileVars, cryptoVars, response, dbVars, regVars, sockVars,
                   chan>>

\* invalidate_session(&req.token).await?
RefreshInvalidate(t) ==
    /\ calls[t].op = "refresh_token" /\ calls[t].pc = "invalidate"
    /\ sessions' = invalidate_session(sessions, calls[t].token)
    /\ calls' = [calls EXCEPT ![t].pc = "create"]
    /\ UNCHANGED <<now, limit, frames, fileVars, cryptoVars, response, users, devices,
                   pending, regVars, sockVars, chan>>

\* generate_session_token draws new_token; create_session(..).await?; Ok(..)
RefreshCreate(t, new_token) ==
    /\ calls[t].op = "refresh_token" /\ calls[t].pc = "create"
    /\ hash_access_key(new_token) \notin DOMAIN sessions
    /\ sessions' = create_session(sessions, calls[t].session.user_id,
                                  calls[t].session.device_id, new_token)
    /\ calls' = [calls EXCEPT ![t].pc = "done", ![t].status = "Ok",
                              ![t].out_token = new_token]
    /\ UNCHANGED <<now, limit, frames, fileVars, cryptoVars, response, users, devices,
                   pending, regVars, sockVars, chan>>

TokensRefresh == {"t1", "t3", "tInv"}
NewTokensRefresh == {"n1", "n2", "n3"}

NextRefresh ==
    \/ \E t \in Threads : \E token \in TokensRefresh \cup NewTokensRefresh :
           RefreshValidate(t, token)
    \/ \E t \in Threads : RefreshInvalidate(t)
    \/ \E t \in Threads : \E n \in NewTokensRefresh : RefreshCreate(t, n)

SpecRefresh == InitRefresh /\ [][NextRefresh]_vars

\* both requests presented the same token and both have answered
RefreshedSame(t, r) ==
    /\ t # r
    /\ calls[t].op = "refresh_token" /\ Returned(t)
    /\ calls[r].op = "refresh_token" /\ Returned(r)
    /\ calls[t].token = calls[r].token

\* C37: of two concurrent refresh requests that present the same valid
\* token, at most one succeeds, whatever the interleaving of their steps.
C37_RefreshSingleUse ==
    \A t, r \in Threads :
        RefreshedSame(t, r) => ~(calls[t].status = "Ok" /\ calls[r].status = "Ok")


\* ------------------------------------------------------------------------
\* POST /api/v1/auth/login and Storage::deactivate_user, one statement after
\* the other. privmsg-server revoke-key is a process of its own on the same
\* database file; its two updates are not in a transaction.
\* ------------------------------------------------------------------------
InitDeactivate ==
    /\ InitState
    /\ limit = [auth |-> 0, msg |-> 0, ack |-> 0, close |-> 0, remove |-> 0,
                http |-> MaxHttpDeactivate, reg |-> 0, unreg |-> 0, ticks |-> 0,
                reap |-> 0, file |-> 0, signal |-> 0]

LoginCall(uid, at, status) ==
    [op |-> "login", pc |-> at, user_id |-> uid, status |-> status,
     out_token |-> None, out_device |-> None]

\* verify_user_credentials(..).await; if !valid { return Err(InvalidCredentials) }
LoginVerify(t, uid, access_key) ==
    /\ Returned(t)
    /\ Accept("http")
    /\ calls' = [calls EXCEPT ![t] =
           IF verify_user_credentials(uid, access_key)
           THEN LoginCall(uid, "get_user", "none")
           ELSE LoginCall(uid, "done", "InvalidCredentials")]
    /\ UNCHANGED <<now, limit, fileVars, cryptoVars, response, dbVars, regVars, sockVars,
                   chan>>

\* get_user(&req.user_id).await?.ok_or(AppError::InvalidCredentials)?
LoginGetUser(t) ==
    /\ calls[t].op = "login" /\ calls[t].pc = "get_user"
    /\ calls' = [calls EXCEPT ![t] =
           IF calls[t].user_id \in DOMAIN users
           THEN [@ EXCEPT !.pc = "create_device"]
           ELSE LoginCall(calls[t].user_id, "done", "InvalidCredentials")]
    /\ UNCHANGED <<now, limit, frames, fileVars, cryptoVars, response, dbVars, regVars,
                   sockVars, chan>>

\* create_device(..).await?; generate_device_id draws new_device
LoginCreateDevice(t, new_device) ==
    /\ calls[t].op = "login" /\ calls[t].pc = "create_device"
    /\ new_device \notin DOMAIN devices
    /\ devices' = [d \in DOMAIN devices \cup {new_device} |->
                      IF d = new_device THEN [user_id |-> calls[t].user_id]
                      ELSE devices[d]]
    /\ calls' = [calls EXCEPT ![t].pc = "create_session", ![t].out_device = new_device]
    /\ UNCHANGED <<now, limit, frames, fileVars, cryptoVars, response, users, sessions,
                   pending, regVars, sockVars, chan>>

\* generate_session_token draws new_token; create_session(..).await?
LoginCreateSession(t, new_token) ==
    /\ calls[t].op = "login" /\ calls[t].pc = "create_session"
    /\ hash_access_key(new_token) \notin DOMAIN sessions
    /\ sessions' = create_session(sessions, calls[t].user_id, calls[t].out_device,
                                  new_token)
    /\ calls' = [calls EXCEPT ![t].pc = "last_seen", ![t].out_token = new_token]
    /\ UNCHANGED <<now, limit, frames, fileVars, cryptoVars, response, users, devices,
                   pending, regVars, sockVars, chan>>

\* update_user_last_seen(..).await?; Ok(Json(LoginResponse {..}))
LoginLastSeen(t) ==
    /\ calls[t].op = "login" /\ calls[t].pc = "last_seen"
    /\ calls' = [calls EXCEPT ![t].pc = "done", ![t].status = "Ok"]
    /\ UNCHANGED <<now, limit, frames, fileVars, cryptoVars, response, dbVars, regVars,
                   sockVars, chan>>

\* UPDATE users SET is_active = 0 WHERE user_id = ?
DeactivateUser(t, uid) ==
    /\ Returned(t)
    /\ Accept("http")
    /\ users' = [u \in DOMAIN users |->
                    IF u = uid THEN [users[u] EXCEPT !.is_active = FALSE] ELSE users[u]]
    /\ calls' = [calls EXCEPT ![t] =
           [op |-> "deactivate_user", pc |-> "sessions", user_id |-> uid]]
    /\ UNCHANGED <<now, limit, fileVars, cryptoVars, response, devices, sessions,
                   pending, regVars, sockVars, chan>>

\* UPDATE sessions SET is_valid = 0 WHERE user_id = ?; Ok(())
DeactivateSessions(t) ==
    /\ calls[t].op = "deactivate_user" /\ calls[t].pc = "sessions"
    /\ sessions' = [h \in DOMAIN sessions |->
                       IF sessions[h].user_id = calls[t].user_id
                       THEN [sessions[h] EXCEPT !.is_valid = FALSE]
                       ELSE sessions[h]]
    /\ Return(t)
    /\ UNCHANGED <<now, limit, frames, fileVars, cryptoVars, response, users, devices,
                   pending, regVars, sockVars, chan>>

NextDeactivate ==
    \/ \E t \in Threads : \E uid \in LoginUserIds : \E key \in AccessKeys :
           LoginVerify(t, uid, key)
    \/ \E t \in Threads : LoginGetUser(t)
    \/ \E t \in Threads : \E d \in NewDevices : LoginCreateDevice(t, d)
    \/ \E t \in Threads : \E n \in NewTokens : LoginCreateSession(t, n)
    \/ \E t \in Threads : LoginLastSeen(t)
    \/ \E t \in Threads : \E uid \in UserIds : DeactivateUser(t, uid)
    \/ \E t \in Threads : DeactivateSessions(t)

SpecDeactivate == InitDeactivate /\ [][NextDeactivate]_vars

\* validate_session accepts the token as a session of user uid
AcceptedFor(token, uid) ==
    LET session == validate_session(token) IN
    session.some /\ session.val.user_id = uid

\* C38: once deactivate_user(u) has completed, validate_session accepts no
\* token of u, also when a login of u that had passed its credential check
\* was in progress during the deactivation.
C38_DeactivationFinal ==
    \A t \in Threads :
        calls[t].op = "deactivate_user" /\ Returned(t) =>
            \A token \in Tokens \cup NewTokens : ~AcceptedFor(token, calls[t].user_id)


\* ------------------------------------------------------------------------
\* generate_identity and import_identity on one CryptoEngine from two
\* threads. identity_secret and identity_public are two RwLocks; each write
\* guard is taken and dropped within its own statement.
\* ------------------------------------------------------------------------
\* the decoded key of import_identity, or its error
import_identity_result(private_key_b64) ==
    LET bytes == B64Decode(private_key_b64) IN
    IF ~bytes.ok THEN Err("Invalid base64")
    ELSE IF Len(bytes.val) # KeyLen THEN Err("Invalid key length")
    ELSE Ok(StaticSecretFrom(bytes.val))

\* the keys an import may be given: exported identities, a key of 31 bytes
PrivateKeys ==
    {B64Encode(SecretBytes(x)) : x \in Secrets}
        \cup {B64Encode([i \in 1..(KeyLen - 1) |-> 1])}

IdentityCall(op, e, at, secret, result) ==
    [op |-> op, pc |-> at, engine |-> e, secret |-> secret, result |-> result]

\* OsRng draws the secret; *self.identity_secret.write() = Some(secret)
GenerateSecret(t, e, secret) ==
    /\ Returned(t)
    /\ identity' = [identity EXCEPT ![e] = Some(secret)]
    /\ calls' = [calls EXCEPT ![t] =
           IdentityCall("generate_identity", e, "public", secret, Ok(None))]
    /\ UNCHANGED <<serverVars, identity_public, peer_sessions, wire, outcome>>

\* *self.identity_public.write() = Some(public); Ok(())
GeneratePublic(t) ==
    /\ calls[t].op = "generate_identity" /\ calls[t].pc = "public"
    /\ identity_public' = [identity_public EXCEPT ![calls[t].engine] =
                              Some(PublicKey(calls[t].secret))]
    /\ Return(t)
    /\ UNCHANGED <<serverVars, identity, peer_sessions, wire, outcome>>

\* decode and length check; *self.identity_secret.write() = Some(secret)
ImportSecret(t, e, private_key_b64) ==
    /\ Returned(t)
    /\ LET result == import_identity_result(private_key_b64) IN
       IF result.ok
       THEN /\ identity' = [identity EXCEPT ![e] = Some(result.val)]
            /\ calls' = [calls EXCEPT ![t] =
                   IdentityCall("import_identity", e, "public", result.val, Ok(None))]
       ELSE /\ UNCHANGED identity
            /\ calls' = [calls EXCEPT ![t] =
                   IdentityCall("import_identity", e, "done", None, result)]
    /\ UNCHANGED <<serverVars, identity_public, peer_sessions, wire, outcome>>

\* *self.identity_public.write() = Some(public); Ok(())
ImportPublic(t) ==
    /\ calls[t].op = "import_identity" /\ calls[t].pc = "public"
    /\ identity_public' = [identity_public EXCEPT ![calls[t].engine] =
                              Some(PublicKey(calls[t].secret))]
    /\ Return(t)
    /\ UNCHANGED <<serverVars, identity, peer_sessions, wire, outcome>>

NextIdentity ==
    \/ \E t \in Threads : \E e \in Engines : \E x \in Secrets : GenerateSecret(t, e, x)
    \/ \E t \in Threads : GeneratePublic(t)
    \/ \E t \in Threads : \E e \in Engines : \E k \in PrivateKeys : ImportSecret(t, e, k)
    \/ \E t \in Threads : ImportPublic(t)

SpecIdentity == InitCrypto /\ [][NextIdentity]_vars

\* no generate_identity or import_identity call is in progress on engine e
Quiescent(e) ==
    \A t \in Threads :
        calls[t].op \in {"generate_identity", "import_identity"} /\ calls[t].engine = e
            => Returned(t)

\* the public key get_public_key returns is the one of the secret that
\* export_identity returns
KeypairConsistent(e) ==
    /\ identity[e].some = identity_public[e].some
    /\ identity[e].some =>
           get_public_key(e) =
               B64Encode(PublicKey(import_identity_result(export_identity(e)).val))

\* C39: whenever no generate_identity or import_identity call is in progress
\* on an engine, its stored public key is the public key of its stored
\* secret, whatever the interleaving of concurrent calls on that engine.
C39_IdentityKeypairConsistent ==
    \A e \in Engines : Quiescent(e) => KeypairConsistent(e)

====
